---- MODULE Spec2Model ----
(***************************************************************************)
(* State-machine model of the audio engine: the processing graph engine    *)
(* (src/src/engine.rs), its aliasing guard borrow_buffers, the circular    *)
(* sample store (src/src/audio/ring.rs), the delay line                    *)
(* (src/src/audio/delay_line.rs) and the resampler                         *)
(* (src/src/audio/resample.rs).                                            *)
(*                                                                         *)
(* Samples are modelled as small naturals (0 is silence, 0.0 in the code). *)
(* A panic of the program is a terminal state: the variable that records   *)
(* it is set and no further operation of that component is enabled.        *)
(***************************************************************************)
EXTENDS Integers, Sequences, FiniteSets, TLC

VARIABLES
    \* ---- AudioEngine (engine.rs:17-29)
    sample_rate,      \* u32
    devices,          \* SlotMap<DeviceId, Box<dyn Processor>>
    audio_inputs,     \* SecondaryMap<DeviceId, Vec<(DeviceId, usize)>>
    audio_buffers,    \* Vec<f32>, the master sample array
    audio_map,        \* HashMap<(DeviceId, usize), usize>
    midi_inputs,      \* SecondaryMap<DeviceId, DeviceId>
    midi_buffers,     \* Vec<Vec<TimedMidiEvent>>
    midi_map,         \* HashMap<DeviceId, usize>
    device_order,     \* Vec<DeviceId>
    handles,          \* every DeviceId add_device has returned to the caller
    catalogue,        \* the kinds of processor the composing layer adds
    calls,            \* the node invocations of the operation just executed
    edited,           \* the wiring has been edited by hand
    panic,            \* "none", or the panic that ended the program
    \* ---- one call of borrow_buffers (engine.rs:260-291)
    bb,
    \* ---- RingBuffer (audio/ring.rs:2-6)
    ring,             \* [buffer, read_idx, write_idx]
    ring_panic,       \* "none", or the panic that ended the program
    ring_log,         \* what has been written to and read from the ring
    \* ---- DelayLine (audio/delay_line.rs:6-22)
    delay_line,       \* [ring, max_delay, sample_rate, warp, target_delay,
                      \*  sampler, output_adapter]
    delay_panic,      \* "none", or the panic that ended the program
    delay_log,        \* the last call on the delay line and what it returned
    \* ---- Resampler (audio/resample.rs:12-15) as Sampler drives it
    resampler,        \* [x1], the position of the next sample to interpolate
    stream_pos,       \* Sampler.read_idx: where in the source the input starts
    resample_panic,   \* "none", or the panic that ended the program
    resample_log,     \* the last call on the resampler and what it returned
    \* ---- VoiceManager (synth/voice.rs:8-15)
    voice_manager,    \* [voices, counter]
    voice_panic,      \* "none", or the panic that ended the program
    voice_log,        \* the last process_midi call and what it rendered
    \* ---- FixedOutputAdapter (audio/adapter.rs:3-8) on its own
    fixed_adapter,    \* [buffer, idx]
    adapter_log,      \* the fill calls so far and what the last one returned
    \* ---- Delay (processor/delay.rs:11-22)
    delay_fx,         \* [delay_lines, sample_rate, delay]
    delay_fx_panic,   \* "none", or the panic that ended the program
    delay_fx_log,     \* the last call on the delay effect
    \* ---- Chord (processor/chord.rs:4-13)
    chord_st,         \* [channel, chord, notes]
    chord_panic,      \* "none", or the panic that ended the program
    chord_log,        \* the build, the last call, the notes held and sounding
    \* ---- Sampler (processor/sampler.rs:9-23)
    sampler_st,       \* [clip, read_idx, sample_rate_in, sample_rate_out,
                      \*  samplers, one_hit]
    sampler_call,     \* the call of process under way and its locals
    sampler_panic,    \* "none", or the panic that ended the program
    \* ---- AudioOutput and the output callback (processor/io.rs:47-86)
    output_st,        \* [occupied, buffer_len, pc]: the ring shared with the
                      \* callback, self.buffer, and where process stands
    callback_st,      \* [pc, popped]: where the output callback stands
    output_log        \* what happened to process in the call under way

engine_vars == <<sample_rate, devices, audio_inputs, audio_buffers, audio_map,
                 midi_inputs, midi_buffers, midi_map, device_order, handles,
                 catalogue, calls, edited, panic>>

borrow_vars == <<bb>>

ring_vars == <<ring, ring_panic, ring_log>>

delay_vars == <<delay_line, delay_panic, delay_log>>

resample_vars == <<resampler, stream_pos, resample_panic, resample_log>>

voice_vars == <<voice_manager, voice_panic, voice_log>>

adapter_vars == <<fixed_adapter, adapter_log>>

delay_fx_vars == <<delay_fx, delay_fx_panic, delay_fx_log>>

\* The processors that are modelled on their own
chord_vars == <<chord_st, chord_panic, chord_log>>

sampler_vars == <<sampler_st, sampler_call, sampler_panic>>

output_vars == <<output_st, callback_st, output_log>>

processor_vars == <<delay_fx_vars, chord_vars, sampler_vars, output_vars>>

\* What the operations of the engine leave alone
non_engine_vars ==
    <<borrow_vars, ring_vars, delay_vars, resample_vars, voice_vars, adapter_vars, processor_vars>>

\* What a call of borrow_buffers leaves alone
non_borrow_vars ==
    <<engine_vars, ring_vars, delay_vars, resample_vars, voice_vars, adapter_vars, processor_vars>>

\* What the operations of the ring buffer leave alone
non_ring_vars ==
    <<engine_vars, borrow_vars, delay_vars, resample_vars, voice_vars, adapter_vars, processor_vars>>

\* What the operations of the delay line leave alone
non_delay_vars ==
    <<engine_vars, borrow_vars, ring_vars, resample_vars, voice_vars, adapter_vars, processor_vars>>

\* What the operations of the resampler leave alone
non_resample_vars ==
    <<engine_vars, borrow_vars, ring_vars, delay_vars, voice_vars, adapter_vars, processor_vars>>

\* What the operations of the voice manager leave alone
non_voice_vars ==
    <<engine_vars, borrow_vars, ring_vars, delay_vars, resample_vars, adapter_vars, processor_vars>>

\* What the operations of the adapter leave alone
non_adapter_vars ==
    <<engine_vars, borrow_vars, ring_vars, delay_vars, resample_vars, voice_vars, processor_vars>>

\* What the operations of the delay effect leave alone
non_delay_fx_vars ==
    <<engine_vars, borrow_vars, ring_vars, delay_vars, resample_vars, voice_vars, adapter_vars,
      chord_vars, sampler_vars, output_vars>>

\* What the operations of the chord processor leave alone
non_chord_vars ==
    <<engine_vars, borrow_vars, ring_vars, delay_vars, resample_vars, voice_vars, adapter_vars,
      delay_fx_vars, sampler_vars, output_vars>>

\* What the operations of the sampler leave alone
non_sampler_vars ==
    <<engine_vars, borrow_vars, ring_vars, delay_vars, resample_vars, voice_vars, adapter_vars,
      delay_fx_vars, chord_vars, output_vars>>

\* What AudioOutput and the output callback leave alone
non_output_vars ==
    <<engine_vars, borrow_vars, ring_vars, delay_vars, resample_vars, voice_vars, adapter_vars,
      delay_fx_vars, chord_vars, sampler_vars>>

vars ==
    <<engine_vars, borrow_vars, ring_vars, delay_vars, resample_vars, voice_vars, adapter_vars, processor_vars>>

----------------------------------------------------------------------------
\* Bounds of the model

\* add_device is called at most this many times
MaxDevices == 3
\* samples saturate at this value (f32 saturates at infinity)
MaxSample == 4
\* borrow_buffers is applied to index lists of length 0..MaxIndices
MaxIndices == 2
\* borrow_buffers is applied to slot indices 0..MaxIndex
MaxIndex == 2
\* borrow_buffers is applied to master arrays of length 0..MaxMaster
MaxMaster == 4
\* borrow_buffers is applied to block lengths 0..MaxBorrowLen
MaxBorrowLen == 2
\* ring buffers have capacity 0..MaxCap
MaxCap == 3
\* the ring buffer is written and read with slices of length 0..MaxCall
MaxCall == 3
\* at most this many samples are written to the ring buffer
MaxWritten == 6
\* the delay effect is given sample rates 0..MaxFxRate
MaxFxRate == 3
\* Chord::process is called with at most this many events
MaxChordEvents == 2
\* `buffer_size` of AudioOutput::from_cpal: the capacity of the output ring
OutCapacity == 4
\* the device asks the callback for 1..MaxData samples
MaxData == 3

\* The block lengths process is called with
BlockLens == {1, 2}
\* The rates set_sample_rate is called with
SampleRates == {44100}
\* The rates set_sample_rate is called with where the rate matters; 0 is the
\* rate of an engine that was never configured
EngineRates == {0, 44100, 48000}
\* The channels set_audio_input and remove_audio_input name
Channels == {0, 1}
\* Seconds are counted in units of 1/TicksPerSecond s
TicksPerSecond == 2^6
\* The maximum delays a delay line is created with: 0 s and 1/8 s
MaxDelays == {0, 8}
\* The rates DelayLine::set_sample_rate is called with
DelayRates == {512}
\* The delays seek and set_target_delay are called with: 0 s, 3/32 s
Delays == {0, 6}
\* The lengths of the blocks written to the delay line
WriteLens == {48}
\* The lengths of the slices read from the delay line
ReadLens == {0, 32}
\* The interpolation margins the resampler may ask for
SamplerMargins == {4, 6}
\* The maximum delay of a delay line that is run in read/write cycles: 1 s
LongDelays == {32}

\* The target delay the step change goes to, in ticks: below one batch of samples
StepTargets == {0, 2}

\* Sampler::process is called until the source position passes MaxPos
MaxPos == 6
\* the output lengths resample is called with
OutLens == {0, 1, 2, 3}
\* positions and ratios are multiples of 1/FracDen
FracDen == 2^2
\* the ratios resample is called with, in 1/FracDen: 0, 0.5, 0.75, 1.0, 1.25
\* and 2.5
Ratios == {0, 2, 3, 4, 5, 10}

\* Program constants
\* CubicInterpolator::window (resample.rs:87-89)
window == 1
\* `let num_buffers = 16` (engine.rs:126); also the number of MIDI buffers
NumBuffers == 16
\* `.min(64)`: the width of the u64 borrow mask (engine.rs:271)
MaskBits == 64
\* `const OUTPUT_SIZE: usize = 32` (audio/delay_line.rs:4)
OUTPUT_SIZE == 32

Min(a, b) == IF a < b THEN a ELSE b
Max(a, b) == IF a > b THEN a ELSE b

\* clamp without its lower bound
Clamp_NoLowerBound(x, lo, hi) == Min(x, hi)

\* usize::clamp (engine.rs:144)
Clamp(x, lo, hi) == Max(lo, Min(x, hi))

Range(s) == {s[i] : i \in 1..Len(s)}

\* All sequences over S of length lo..hi
SeqsOf(S, lo, hi) == UNION {[1..n -> S] : n \in lo..hi}

----------------------------------------------------------------------------
\* The aliasing guard (engine.rs:260-303)

\* assert_index_valid with the check of the borrow mask left out
assert_index_valid_NoMaskCheck(idx, max_buffers, borrow_mask, mutable) ==
    IF idx >= max_buffers
    THEN [panic |-> "index out of bounds", mask |-> borrow_mask]
    ELSE [panic |-> "none", mask |-> borrow_mask \cup {idx}]

\* assert_index_valid with an off-by-one bounds check
assert_index_valid_OffByOne(idx, max_buffers, borrow_mask, mutable) ==
    IF idx + 1 >= max_buffers
    THEN [panic |-> "index out of bounds", mask |-> borrow_mask]
    ELSE IF mutable /\ idx \in borrow_mask
    THEN [panic |-> "already borrowed", mask |-> borrow_mask]
    ELSE [panic |-> "none", mask |-> borrow_mask \cup {idx}]

\* assert_index_valid that marks the mask for mutable borrows only
assert_index_valid_InputsUnmarked(idx, max_buffers, borrow_mask, mutable) ==
    IF idx >= max_buffers
    THEN [panic |-> "index out of bounds", mask |-> borrow_mask]
    ELSE IF mutable /\ idx \in borrow_mask
    THEN [panic |-> "already borrowed", mask |-> borrow_mask]
    ELSE [panic |-> "none",
          mask |-> IF mutable THEN borrow_mask \cup {idx} ELSE borrow_mask]

\* assert_index_valid: the u64 borrow_mask is the set of its one bits
assert_index_valid(idx, max_buffers, borrow_mask, mutable) ==
    IF idx >= max_buffers
    THEN [panic |-> "index out of bounds", mask |-> borrow_mask]
    ELSE IF mutable /\ idx \in borrow_mask
    THEN [panic |-> "already borrowed", mask |-> borrow_mask]
    ELSE [panic |-> "none", mask |-> borrow_mask \cup {idx}]

\* The closure mapped over one index iterator: validates the indices in order
\* and stops at the first panic.  st = [panic, mask].
RECURSIVE borrow_each(_, _, _, _, _)
borrow_each(indices, k, max_buffers, mutable, st) ==
    IF k > Len(indices) \/ st.panic # "none" THEN st
    ELSE borrow_each(indices, k + 1, max_buffers, mutable,
                     assert_index_valid(indices[k], max_buffers, st.mask, mutable))

\* A view is the half-open range [start, start + len) of the master array
\* (from_raw_parts(base_ptr.add(len * idx), len)).
View(idx, len) == [start |-> len * idx, len |-> len]

\* max_buffers without the cap at the width of the mask
max_buffers_Uncapped(master_len, len) == master_len \div len

\* `let max_buffers = (master.len() / len).min(64)`, for len > 0
max_buffers(master_len, len) == Min(master_len \div len, MaskBits)

\* borrow_buffers(master, len, audio_in_indices, audio_out_indices):
\* the views handed out, or the panic.
borrow_buffers(master_len, len, audio_in_indices, audio_out_indices) ==
    IF len = 0
    THEN [panic |-> "divide by zero", audio_in |-> << >>, audio_out |-> << >>]
    ELSE
    LET max        == max_buffers(master_len, len)
        ins  == borrow_each(audio_in_indices, 1, max, FALSE,
                            [panic |-> "none", mask |-> {}])
        outs == borrow_each(audio_out_indices, 1, max, TRUE, ins)
    IN  IF outs.panic # "none"
        THEN [panic |-> outs.panic, audio_in |-> << >>, audio_out |-> << >>]
        ELSE [panic |-> "none",
              audio_in  |-> [c \in 1..Len(audio_in_indices) |->
                                View(audio_in_indices[c], len)],
              audio_out |-> [c \in 1..Len(audio_out_indices) |->
                                View(audio_out_indices[c], len)]]

\* Two views share at least one sample of the master array
Overlap(v, w) == v.start < w.start + w.len /\ w.start < v.start + v.len

IndexLists == SeqsOf(0..MaxIndex, 0, MaxIndices)

BorrowInit == bb = [called |-> FALSE]

\* The one call of borrow_buffers, on arbitrary arguments
BorrowCall ==
    /\ ~bb.called
    /\ UNCHANGED non_borrow_vars
    /\ \E master_len \in 0..MaxMaster, len \in 0..MaxBorrowLen,
       ins \in IndexLists, outs \in IndexLists :
        bb' = [called |-> TRUE, master_len |-> master_len, len |-> len,
               audio_in_indices |-> ins, audio_out_indices |-> outs,
               result |-> borrow_buffers(master_len, len, ins, outs)]

\* Master arrays of more slots than the mask has bits, and slot indices on
\* both sides of the mask's width
WideMasters == {MaskBits - 1, MaskBits, MaskBits + 1, MaskBits + 2}

WideIndices == {0, 1, MaskBits - 1, MaskBits, MaskBits + 1}

\* The one call of borrow_buffers, on a master array of about 64 slots
BorrowWideCall ==
    /\ ~bb.called
    /\ UNCHANGED non_borrow_vars
    /\ \E master_len \in WideMasters, len \in 0..MaxBorrowLen,
       ins \in SeqsOf(WideIndices, 0, 1), outs \in SeqsOf(WideIndices, 0, MaxIndices) :
        bb' = [called |-> TRUE, master_len |-> master_len, len |-> len,
               audio_in_indices |-> ins, audio_out_indices |-> outs,
               result |-> borrow_buffers(master_len, len, ins, outs)]

----------------------------------------------------------------------------
\* The circular sample store (src/src/audio/ring.rs)

\* RingBuffer::new: `size` zeroed samples, both cursors at 0
RingBuffer_new(size) ==
    [buffer |-> [x \in 1..size |-> 0], read_idx |-> 0, write_idx |-> 0]

\* RingBuffer::size
ring_size(r) == Len(r.buffer)

\* isize::rem_euclid for a positive divisor
rem_euclid(a, n) == a % n

\* RingBuffer::delay; rem_euclid panics on an empty buffer
ring_delay(r) ==
    IF Len(r.buffer) = 0
    THEN [panic |-> "remainder with a divisor of zero", delay |-> 0]
    ELSE [panic |-> "none",
          delay |-> rem_euclid(r.write_idx - r.read_idx, Len(r.buffer))]

\* RingBuffer::seek, with the delay counted from the read cursor
ring_seek_FromReadCursor(r, delay) ==
    IF Len(r.buffer) = 0
    THEN [panic |-> "remainder with a divisor of zero", ring |-> r]
    ELSE [panic |-> "none",
          ring |-> [r EXCEPT !.read_idx =
                        rem_euclid(r.read_idx - delay, Len(r.buffer))]]

\* RingBuffer::seek without the reduction modulo the capacity
ring_seek_Unwrapped(r, delay) ==
    IF Len(r.buffer) = 0
    THEN [panic |-> "remainder with a divisor of zero", ring |-> r]
    ELSE [panic |-> "none",
          ring |-> [r EXCEPT !.read_idx = r.write_idx - delay]]

\* RingBuffer::seek; rem_euclid panics on an empty buffer
ring_seek(r, delay) ==
    IF Len(r.buffer) = 0
    THEN [panic |-> "remainder with a divisor of zero", ring |-> r]
    ELSE [panic |-> "none",
          ring |-> [r EXCEPT !.read_idx =
                        rem_euclid(r.write_idx - delay, Len(r.buffer))]]

\* RingBuffer::read, with the wrapped part of the slice replaced by silence
ring_read_NoWrap(r, k) ==
    LET buf == r.buffer
        i   == r.read_idx
        j   == r.read_idx + k
        len == Len(buf)
    IN  IF j > len
        THEN [panic |-> "none",
              ring |-> [r EXCEPT !.read_idx = Min(j - len, len)],
              samples |-> SubSeq(buf, i + 1, len) \o [x \in 1..(j - len) |-> 0]]
        ELSE [panic |-> "none",
              ring |-> [r EXCEPT !.read_idx = j],
              samples |-> SubSeq(buf, i + 1, j)]

\* RingBuffer::read of k samples.  `&buf[..(j - len)]` panics when the wrapped
\* part is longer than the buffer.
ring_read(r, k) ==
    LET buf == r.buffer
        i   == r.read_idx
        j   == r.read_idx + k
        len == Len(buf)
    IN  IF j > len
        THEN IF j - len > len
             THEN [panic |-> "range end index out of range", ring |-> r,
                   samples |-> SubSeq(buf, i + 1, len)]
             ELSE [panic |-> "none",
                   ring |-> [r EXCEPT !.read_idx = j - len],
                   samples |-> SubSeq(buf, i + 1, len) \o SubSeq(buf, 1, j - len)]
        ELSE [panic |-> "none",
              ring |-> [r EXCEPT !.read_idx = j],
              samples |-> SubSeq(buf, i + 1, j)]

\* RingBuffer::write, with the write cursor put back to 0 when the slice wraps
ring_write_ResetOnWrap(r, samples) ==
    LET j   == r.write_idx + Len(samples)
        len == Len(r.buffer)
    IN  IF j > len
        THEN [panic |-> IF j - len > len THEN "range end index out of range"
                        ELSE "none",
              ring |-> [r EXCEPT !.write_idx = 0]]
        ELSE [panic |-> "none", ring |-> [r EXCEPT !.write_idx = j]]

\* RingBuffer::write.  `&mut buf[..(j - len)]` panics when the wrapped part is
\* longer than the buffer; the part up to the end has been copied by then.
\* The wrapped part is copied second and wins where the two parts overlap.
ring_write(r, samples) ==
    LET buf == r.buffer
        i   == r.write_idx
        j   == r.write_idx + Len(samples)
        len == Len(buf)
    IN  IF j > len
        THEN IF j - len > len
             THEN [panic |-> "range end index out of range",
                   ring |-> [r EXCEPT !.buffer =
                                [x \in 1..len |->
                                    IF x > i THEN samples[x - i] ELSE buf[x]]]]
             ELSE [panic |-> "none",
                   ring |-> [r EXCEPT
                       !.buffer = [x \in 1..len |->
                                      IF x <= j - len
                                      THEN samples[len - i + x]
                                      ELSE IF x > i THEN samples[x - i]
                                           ELSE buf[x]],
                       !.write_idx = j - len]]
        ELSE [panic |-> "none",
              ring |-> [r EXCEPT
                  !.buffer = [x \in 1..len |->
                                 IF x > i /\ x <= j THEN samples[x - i]
                                 ELSE buf[x]],
                  !.write_idx = j]]

\* The log of a ring buffer's use: the samples written and not yet read, in
\* order; whether more samples than the capacity were ever unread; whether a
\* read ever asked for more than was unread; and the last call, with its
\* length (for seek, the delay) and the ring buffer it was applied to
RingLogInit ==
    [unread |-> << >>, overrun |-> FALSE, underrun |-> FALSE, op |-> "new",
     samples |-> << >>, expected |-> << >>, wrapped |-> FALSE, written |-> 0,
     len |-> 0, before |-> RingBuffer_new(0)]

\* A ring buffer that is not used
RingIdle ==
    /\ ring = RingBuffer_new(0)
    /\ ring_panic = "none"
    /\ ring_log = RingLogInit

\* A ring buffer of some capacity has been created
RingInit ==
    /\ \E size \in 0..MaxCap : ring = RingBuffer_new(size)
    /\ ring_panic = "none"
    /\ ring_log = RingLogInit

\* write(samples) with k fresh samples, numbered in the order they are written
RingWrite(k) ==
    /\ ring_panic = "none"
    /\ ring_log.written + k <= MaxWritten
    /\ LET samples == [x \in 1..k |-> ring_log.written + x]
           res     == ring_write(ring, samples)
       IN  /\ ring' = res.ring
           /\ ring_panic' = res.panic
           /\ ring_log' = [ring_log EXCEPT
                  !.op = "write",
                  !.unread = @ \o samples,
                  !.overrun = @ \/ Len(ring_log.unread) + k > ring_size(ring),
                  !.samples = << >>,
                  !.expected = << >>,
                  !.wrapped = ring.write_idx + k > ring_size(ring),
                  !.written = @ + k,
                  !.len = k,
                  !.before = ring]
    /\ UNCHANGED non_ring_vars

\* read(samples) into a slice of length k
RingRead(k) ==
    /\ ring_panic = "none"
    /\ LET res    == ring_read(ring, k)
           unread == ring_log.unread
       IN  /\ ring' = res.ring
           /\ ring_panic' = res.panic
           /\ ring_log' = [ring_log EXCEPT
                  !.op = "read",
                  !.unread = IF k <= Len(unread)
                             THEN SubSeq(unread, k + 1, Len(unread))
                             ELSE << >>,
                  !.underrun = @ \/ k > Len(unread),
                  !.samples = res.samples,
                  !.expected = SubSeq(unread, 1, Min(k, Len(unread))),
                  !.wrapped = ring.read_idx + k > ring_size(ring),
                  !.len = k,
                  !.before = ring]
    /\ UNCHANGED non_ring_vars

\* seek(delay).  The samples the reader will see next are no longer the
\* unread ones of the log, which is kept for uses without seek only.
RingSeek(delay) ==
    /\ ring_panic = "none"
    /\ LET res == ring_seek(ring, delay)
       IN  /\ ring' = res.ring
           /\ ring_panic' = res.panic
           /\ ring_log' = [ring_log EXCEPT
                  !.op = "seek",
                  !.samples = << >>,
                  !.expected = << >>,
                  !.wrapped = FALSE,
                  !.len = delay,
                  !.before = ring]
    /\ UNCHANGED non_ring_vars

----------------------------------------------------------------------------
\* The delay line (src/src/audio/delay_line.rs)
\*
\* Seconds are counted in units of 1/TicksPerSecond s and the sample rates
\* are multiples of 512 Hz, so that every f32 product and quotient of the
\* code is an integer the model computes exactly.

\* FixedOutputAdapter::default: an idx of N signifies an empty buffer
FixedOutputAdapter_default ==
    [buffer |-> [x \in 1..OUTPUT_SIZE |-> 0], idx |-> OUTPUT_SIZE]

\* FixedOutputAdapter::read that copies from the start of the buffer
adapter_read_FromStart(adapter, room) ==
    IF adapter.idx >= OUTPUT_SIZE
    THEN [adapter |-> adapter, samples |-> << >>]
    ELSE LET next_idx == Min(adapter.idx + room, OUTPUT_SIZE)
         IN  [adapter |-> [adapter EXCEPT !.idx = next_idx],
              samples |-> SubSeq(adapter.buffer, 1, next_idx - adapter.idx)]

\* FixedOutputAdapter::read into a slice of `room` samples
adapter_read(adapter, room) ==
    IF adapter.idx >= OUTPUT_SIZE
    THEN [adapter |-> adapter, samples |-> << >>]
    ELSE LET next_idx == Min(adapter.idx + room, OUTPUT_SIZE)
         IN  [adapter |-> [adapter EXCEPT !.idx = next_idx],
              samples |-> SubSeq(adapter.buffer, adapter.idx + 1, next_idx)]

\* FixedOutputAdapter::write_silence
write_silence(adapter) ==
    [buffer |-> [x \in 1..OUTPUT_SIZE |-> 0], idx |-> 0]

\* DelayLine::new; the resampler starts at ratio 1.0
DelayLine_new(max_delay) ==
    [ring |-> RingBuffer_new(0),
     max_delay |-> max_delay,
     sample_rate |-> 0,
     warp |-> 0,
     target_delay |-> 0,
     sampler |-> [ratio |-> [num |-> 1, den |-> 1]],
     output_adapter |-> FixedOutputAdapter_default]

\* `(seconds * sample_rate) as usize`
SamplesIn(seconds, rate) == (seconds * rate) \div TicksPerSecond

\* DelayLine::set_sample_rate
dl_set_sample_rate(dl, rate) ==
    [dl EXCEPT !.sample_rate = rate,
               !.ring = RingBuffer_new(SamplesIn(dl.max_delay, rate))]

\* DelayLine::set_target_delay, moving the read cursor to the target as well
dl_set_target_delay_AndSeek(dl, target_delay) ==
    LET target == SamplesIn(target_delay, dl.sample_rate)
        N == Len(dl.ring.buffer)
    IN  [dl EXCEPT !.target_delay = target,
                   !.ring.read_idx = IF N = 0 THEN @
                                     ELSE rem_euclid(dl.ring.write_idx - target, N)]

\* DelayLine::set_target_delay
dl_set_target_delay(dl, target_delay) ==
    [dl EXCEPT !.target_delay = SamplesIn(target_delay, dl.sample_rate)]

\* DelayLine::seek
dl_seek(dl, delay) ==
    LET dl1 == dl_set_target_delay(dl, delay)
        res == ring_seek(dl1.ring, dl1.target_delay)
    IN  [panic |-> res.panic, dl |-> [dl1 EXCEPT !.ring = res.ring]]

\* DelayLine::write
dl_write(dl, samples) ==
    LET res == ring_write(dl.ring, samples)
    IN  [panic |-> res.panic, dl |-> [dl EXCEPT !.ring = res.ring]]

\* DelayLine::update_warp with omega = 8: the acceleration is
\* omega^2 * error - 2 * omega * warp, applied for samples / sample_rate s.
\* RingBuffer::delay is called first and panics on an empty ring.
update_warp(dl, samples) ==
    LET d == ring_delay(dl.ring)
        error == dl.target_delay - d.delay
        warp_acc == 64 * error - 16 * dl.warp
    IN  IF d.panic # "none"
        THEN [panic |-> d.panic, dl |-> dl]
        ELSE [panic |-> "none",
              dl |-> [dl EXCEPT !.warp =
                         @ + (warp_acc * samples) \div dl.sample_rate]]

\* `(warp / sample_rate + 1.0).clamp(0.2, 10.0)`, as a fraction: the ratio is
\* bounded below by 0.2
resample_ratio_ClampFifth(warp, rate) ==
    [num |-> Clamp(10 * (warp + rate), 2 * rate, 100 * rate), den |-> 10 * rate]

\* `(warp / sample_rate + 1.0).clamp(0.1, 10.0)`, as a fraction
resample_ratio(warp, rate) ==
    [num |-> Clamp(10 * (warp + rate), rate, 100 * rate), den |-> 10 * rate]

\* The least integer not below a / b
CeilDiv(a, b) == (a + b - 1) \div b

\* Resampler::input_frames_next of the rubato crate, which is not part of the
\* repository: the frames that OUTPUT_SIZE output frames span at this ratio,
\* plus the interpolation margin the resampler asks for
input_frames_next(ratio, margin) ==
    CeilDiv(OUTPUT_SIZE * ratio.den, ratio.num) + margin

\* Resampler::process_into_buffer of the rubato crate: OUTPUT_SIZE frames
\* spread evenly over the input frames; each takes the value of the input
\* frame it falls on
process_into_buffer(input) ==
    [x \in 1..OUTPUT_SIZE |-> input[((x - 1) * Len(input)) \div OUTPUT_SIZE + 1]]

\* DelayLine::read_inner, called by the adapter with its buffer `samples`.
\* `self.output_adapter` is here the placeholder that mem::take left in the
\* delay line, not the adapter whose buffer is being filled.
read_inner(dl, samples, margin) ==
    LET uw == update_warp(dl, OUTPUT_SIZE)
        dl1 == uw.dl
        ratio == resample_ratio(dl1.warp, dl1.sample_rate)
        dl2 == [dl1 EXCEPT !.sampler.ratio = ratio]
        input_size == input_frames_next(ratio, margin)
        d == ring_delay(dl2.ring)
        rd == ring_read(dl2.ring, input_size)
    IN  IF uw.panic # "none"
        THEN [panic |-> uw.panic, dl |-> dl, samples |-> samples,
              batch |-> << >>]
        ELSE IF input_size > d.delay
        THEN [panic |-> "none",
              dl |-> [dl2 EXCEPT !.output_adapter = write_silence(@)],
              samples |-> samples,
              batch |-> <<[underrun |-> TRUE, input_size |-> input_size,
                           delay |-> d.delay, samples |-> samples,
                           read_before |-> dl.ring.read_idx,
                           read_after |-> dl2.ring.read_idx]>>]
        ELSE [panic |-> rd.panic,
              dl |-> [dl2 EXCEPT !.ring = rd.ring],
              samples |-> process_into_buffer(rd.samples),
              batch |-> <<[underrun |-> FALSE, input_size |-> input_size,
                           delay |-> d.delay,
                           samples |-> process_into_buffer(rd.samples),
                           read_before |-> dl.ring.read_idx,
                           read_after |-> rd.ring.read_idx]>>]

\* FixedOutputAdapter::fill: st is [dl, output, panic, samples, batches], with
\* `output` the adapter taken out of the delay line and `samples` the part of
\* the caller's slice filled so far
RECURSIVE adapter_fill(_, _, _)
adapter_fill(st, room, margin) ==
    LET rd == adapter_read(st.output, room)
        left == room - Len(rd.samples)
        st1 == [st EXCEPT !.output = rd.adapter, !.samples = @ \o rd.samples]
        made == read_inner(st1.dl, st1.output.buffer, margin)
    IN  IF left = 0
        THEN st1
        ELSE IF made.panic # "none"
        THEN [st1 EXCEPT !.panic = made.panic, !.dl = made.dl]
        ELSE adapter_fill([st1 EXCEPT
                               !.dl = made.dl,
                               !.output = [buffer |-> made.samples, idx |-> 0],
                               !.batches = @ \o made.batch],
                          left, margin)

\* DelayLine::read into a slice of `len` samples: the adapter is taken out of
\* the delay line (leaving a default one), filled, and put back
dl_read(dl, len, margin) ==
    LET st == adapter_fill([dl |-> [dl EXCEPT !.output_adapter =
                                        FixedOutputAdapter_default],
                            output |-> dl.output_adapter,
                            panic |-> "none",
                            samples |-> << >>,
                            batches |-> << >>],
                           len, margin)
    IN  [panic |-> st.panic,
         dl |-> [st.dl EXCEPT !.output_adapter = st.output],
         samples |-> st.samples,
         batches |-> st.batches]

\* The log of a delay line's use: the last call, whether write was ever
\* called, and for a read its length, the samples it returned and the batches
\* it asked read_inner for
DelayLogInit ==
    [op |-> "new", wrote |-> FALSE, len |-> 0, samples |-> << >>,
     batches |-> << >>]

\* A delay line that is not used
DelayIdle ==
    /\ delay_line = DelayLine_new(0)
    /\ delay_panic = "none"
    /\ delay_log = DelayLogInit

\* A delay line has been created
DelayInit ==
    /\ \E max_delay \in MaxDelays : delay_line = DelayLine_new(max_delay)
    /\ delay_panic = "none"
    /\ delay_log = DelayLogInit

DlSetSampleRate(rate) ==
    /\ delay_panic = "none"
    /\ delay_line' = dl_set_sample_rate(delay_line, rate)
    /\ delay_log' = [delay_log EXCEPT !.op = "set_sample_rate",
                        !.len = 0, !.samples = << >>, !.batches = << >>]
    /\ UNCHANGED <<delay_panic, non_delay_vars>>

DlSetTargetDelay(target_delay) ==
    /\ delay_panic = "none"
    /\ delay_line' = dl_set_target_delay(delay_line, target_delay)
    /\ delay_log' = [delay_log EXCEPT !.op = "set_target_delay",
                        !.len = 0, !.samples = << >>, !.batches = << >>]
    /\ UNCHANGED <<delay_panic, non_delay_vars>>

DlSeek(delay) ==
    /\ delay_panic = "none"
    /\ LET res == dl_seek(delay_line, delay)
       IN  /\ delay_line' = res.dl
           /\ delay_panic' = res.panic
    /\ delay_log' = [delay_log EXCEPT !.op = "seek",
                        !.len = 0, !.samples = << >>, !.batches = << >>]
    /\ UNCHANGED non_delay_vars

\* write(samples) with a block of `len` samples of value v
DlWrite(len, v) ==
    /\ delay_panic = "none"
    /\ LET res == dl_write(delay_line, [x \in 1..len |-> v])
       IN  /\ delay_line' = res.dl
           /\ delay_panic' = res.panic
    /\ delay_log' = [delay_log EXCEPT !.op = "write", !.wrote = TRUE,
                        !.len = 0, !.samples = << >>, !.batches = << >>]
    /\ UNCHANGED non_delay_vars

\* read(samples) into a slice of `len` samples
DlRead(len) ==
    /\ delay_panic = "none"
    /\ \E margin \in SamplerMargins :
        LET res == dl_read(delay_line, len, margin)
        IN  /\ delay_line' = res.dl
            /\ delay_panic' = res.panic
            /\ delay_log' = [delay_log EXCEPT !.op = "read", !.len = len,
                                !.samples = res.samples,
                                !.batches = res.batches]
    /\ UNCHANGED non_delay_vars

----------------------------------------------------------------------------
\* The resampler (src/src/audio/resample.rs) with the cubic interpolator, as
\* Sampler::process drives it (src/src/processor/sampler.rs:56-81)
\*
\* Positions and ratios are counted in units of 1/FracDen sample, so that
\* every f32 sum and product of the code is a number the model computes
\* exactly.  Output samples are counted in units of 1/OutScale.

\* The floor and the fractional part of a position
Floor(x) == x \div FracDen
Fract(x) == x % FracDen

\* The ratio 1.0
One == FracDen

\* Output samples are multiples of 1/6 of 1/FracDen^3 of the input samples
OutScale == 6 * FracDen * FracDen * FracDen

\* Resampler::new
Resampler_new == [x1 |-> window * FracDen]

\* Resampler::reset: returns the sample delay
resampler_reset(rs) == [rs |-> Resampler_new, delay |-> window]

\* Resampler::next_input_size, asking for one sample less
next_input_size_OneShort(rs, output_samples, ratio) ==
    Floor(rs.x1 + ratio * output_samples) + 1 + window

\* Resampler::next_input_size
next_input_size(rs, output_samples, ratio) ==
    Floor(rs.x1 + ratio * output_samples) + 2 + window

\* CubicInterpolator::interpolate at t (in 1/FracDen): reads samples[0..=3]
interpolate(t, samples) ==
    IF Len(samples) < 4
    THEN [panic |-> "index out of bounds", value |-> 0]
    ELSE LET a0 == 6 * samples[2]
             a1 == -2 * samples[1] - 3 * samples[2] + 6 * samples[3]
                       - samples[4]
             a2 == 3 * (samples[1] + samples[3]) - 6 * samples[2]
             a3 == 3 * (samples[2] - samples[3]) + (samples[4] - samples[1])
         IN  [panic |-> "none",
              value |-> a0 * FracDen * FracDen * FracDen
                          + a1 * t * FracDen * FracDen
                          + a2 * t * t * FracDen
                          + a3 * t * t * t]

\* `self.x1 = x2 - offset`, with the fractional part of x2 dropped
carry_position_Whole(x2, offset) == window * FracDen

\* `self.x1 = x2 - offset`, with the offset left in the position
carry_position_Unreduced(x2, offset) == x2

\* `self.x1 = x2 - offset`
carry_position(x2, offset) == x2 - offset * FracDen

\* `samples_out.copy_from_slice(..)`, copying from the start of the input
copy_input_FromStart(samples_in, x1, len) ==
    [i \in 1..len |-> OutScale * samples_in[i]]

\* `samples_out.copy_from_slice(&samples_in[x1..(x1 + samples_out.len())])`
copy_input(samples_in, x1, len) ==
    [i \in 1..len |-> OutScale * samples_in[x1 + i]]

\* The interpolations of Resampler::resample: sample i of `len` is taken at
\* x1 + ratio * i, from `&samples_in[idx..]`
interpolation(samples_in, x1, ratio, i) ==
    LET x == x1 + ratio * i
        idx == Floor(x) - window
    IN  IF idx < 0
        THEN [panic |-> "attempt to subtract with overflow", value |-> 0]
        ELSE IF idx > Len(samples_in)
        THEN [panic |-> "range start index out of range", value |-> 0]
        ELSE interpolate(Fract(x), SubSeq(samples_in, idx + 1, Len(samples_in)))

\* Resampler::resample into `len` output samples: [panic, rs, out, offset].
\* `samples_in.len() - I::window() - 1` underflows on fewer than 2 samples:
\* a panic in a checked build, and in an unchecked one the first assertion
\* fails, so the call panics either way.
resample(rs, samples_in, len, ratio) ==
    LET failed(why) == [panic |-> why, rs |-> rs, out |-> << >>, offset |-> 0]
    IN
    IF Fract(rs.x1) = 0 /\ ratio = One
    THEN LET x1 == Floor(rs.x1)
         IN  IF x1 + len > Len(samples_in)
             THEN failed("range end index out of range")
             ELSE [panic |-> "none",
                   rs |-> [rs EXCEPT !.x1 = window * FracDen],
                   out |-> copy_input(samples_in, x1, len),
                   offset |-> len + x1 - window]
    ELSE LET x1 == rs.x1
             x2 == x1 + ratio * len
             x_min == window * FracDen
             x_max == (Len(samples_in) - window - 1) * FracDen
             made == [i \in 1..len |->
                        interpolation(samples_in, x1, ratio, i - 1)]
             offset == Floor(x2) - window
         IN  IF Len(samples_in) < window + 1
             THEN failed("attempt to subtract with overflow")
             ELSE IF Len(samples_in) < 2 + window + window
             THEN failed("assertion failed: samples_in.len() >= 2 + I::window() + I::window()")
             ELSE IF ~(x1 >= x_min /\ x1 <= x_max)
             THEN failed("assertion failed: x1 >= x_min && x1 <= x_max")
             ELSE IF ~(x2 >= x_min /\ x2 <= x_max)
             THEN failed("assertion failed: x2 >= x_min && x2 <= x_max")
             ELSE IF \E i \in 1..len : made[i].panic # "none"
             THEN failed(made[CHOOSE i \in 1..len :
                                 /\ made[i].panic # "none"
                                 /\ \A j \in 1..(i - 1) :
                                       made[j].panic = "none"].panic)
             ELSE [panic |-> "none",
                   rs |-> [rs EXCEPT !.x1 = carry_position(x2, offset)],
                   out |-> [i \in 1..len |-> made[i].value],
                   offset |-> offset]

\* The source the sampler plays: an endless stream of samples
SourceAt(i) == (i * i + i \div 3) % MaxSample

\* Sampler::process for one channel, with the source starting at `pos`: the
\* input is the next_input_size samples from `pos` on, and the read position
\* advances by the offset resample returns
sampler_process(rs, pos, len, ratio) ==
    LET input_size == next_input_size(rs, len, ratio)
        input == [k \in 1..input_size |-> SourceAt(pos + k - 1)]
        res == resample(rs, input, len, ratio)
    IN  [panic |-> res.panic, rs |-> res.rs, out |-> res.out,
         offset |-> res.offset, input_size |-> input_size,
         pos |-> pos + res.offset]

\* The log of a resampler's use: the last call, and for a resample its
\* arguments, the position and the source position it started from, and what
\* it returned
ResampleLogInit ==
    [op |-> "new", len |-> 0, ratio |-> 0, x1 |-> 0, pos |-> 0,
     input_size |-> 0, offset |-> 0, out |-> << >>]

\* A resampler that is not used
ResampleIdle ==
    /\ resampler = Resampler_new
    /\ stream_pos = 0
    /\ resample_panic = "none"
    /\ resample_log = ResampleLogInit

\* A resampler has been created
ResampleInit == ResampleIdle

\* Resampler::reset
RsReset ==
    /\ resample_panic = "none"
    /\ resampler' = resampler_reset(resampler).rs
    /\ resample_log' = [ResampleLogInit EXCEPT !.op = "reset"]
    /\ UNCHANGED <<stream_pos, resample_panic, non_resample_vars>>

\* Sampler::process: resample into `len` output samples at `ratio`
RsResample(len, ratio) ==
    /\ resample_panic = "none"
    /\ stream_pos <= MaxPos
    /\ LET res == sampler_process(resampler, stream_pos, len, ratio)
       IN  /\ resampler' = res.rs
           /\ stream_pos' = res.pos
           /\ resample_panic' = res.panic
           /\ resample_log' = [op |-> "resample", len |-> len, ratio |-> ratio,
                               x1 |-> resampler.x1, pos |-> stream_pos,
                               input_size |-> res.input_size,
                               offset |-> res.offset, out |-> res.out]
    /\ UNCHANGED non_resample_vars

----------------------------------------------------------------------------
\* The voice manager (src/src/synth/voice.rs)
\*
\* The voice type V is a parameter of the manager.  The model takes a gate:
\* its process adds VoiceLevel to every sample of the slice while the note is
\* held and ReleaseLevel once it is released, and returns true.

\* The block lengths process_midi is called with are 0..MaxBlock
MaxBlock == 3
\* A block carries at most this many events
MaxEvents == 2
\* process_midi is called while the use counter is at most this
MaxCounter == 2
\* `VoiceManager::new(num_voices, voice)`
NumVoices == 2
\* trigger and release are called while the counter is below this
MaxVoiceCalls == 6

VoiceLevel == 2
ReleaseLevel == 1

\* The notes the events carry
Notes == {60, 62}

\* The events of a block: MidiEvent::NoteOn and MidiEvent::NoteOff
MidiEvents == [type : {"NoteOn", "NoteOff"}, note : Notes]

\* `usize::MAX / 2` of VoiceHandle::priority, above every `3 + counter` the
\* model reaches
HalfMax == 2^20

\* VoiceHandle::new
VoiceHandle_new == [phase |-> "Off", note |-> 0, counter |-> 0]

\* VoiceManager::new
VoiceManager_new ==
    [voices |-> [v \in 1..NumVoices |-> VoiceHandle_new], counter |-> 0]

\* VoiceHandle::priority without the case of a retriggered note
priority_NoRetrigger(v, note) ==
    CASE v.phase = "Off"                        -> 1
      [] v.phase = "Released" /\ v.note = note -> 2
      [] v.phase = "Released" /\ v.note # note -> 3 + v.counter
      [] v.phase = "On"                         -> HalfMax + v.counter

\* VoiceHandle::priority with released voices of another note ranked by
\* their release alone, whatever remains of usize::MAX / 2
priority_ReleasedLast(v, note) ==
    CASE v.phase = "On" /\ v.note = note       -> 0
      [] v.phase = "Off"                        -> 1
      [] v.phase = "Released" /\ v.note = note -> 2
      [] v.phase = "Released" /\ v.note # note -> HalfMax + HalfMax + v.counter
      [] v.phase = "On" /\ v.note # note       -> HalfMax + v.counter

\* VoiceHandle::priority
priority(v, note) ==
    CASE v.phase = "On" /\ v.note = note       -> 0
      [] v.phase = "Off"                        -> 1
      [] v.phase = "Released" /\ v.note = note -> 2
      [] v.phase = "Released" /\ v.note # note -> 3 + v.counter
      [] v.phase = "On" /\ v.note # note       -> HalfMax + v.counter

\* VoiceManager::trigger: min_by_key takes the first voice of least priority
trigger(vm, note) ==
    LET least == CHOOSE i \in 1..Len(vm.voices) :
                    /\ \A j \in 1..Len(vm.voices) :
                          priority(vm.voices[i], note) <= priority(vm.voices[j], note)
                    /\ \A j \in 1..(i - 1) :
                          priority(vm.voices[j], note) > priority(vm.voices[i], note)
    IN  [voices |-> [vm.voices EXCEPT ![least] =
                        [phase |-> "On", note |-> note, counter |-> vm.counter]],
         counter |-> vm.counter + 1]

\* VoiceManager::release: the first voice that holds the note, if any
release(vm, note) ==
    LET holding == {i \in 1..Len(vm.voices) :
                       vm.voices[i].phase = "On" /\ vm.voices[i].note = note}
    IN  IF holding = {} THEN vm
        ELSE LET first == CHOOSE i \in holding : \A j \in holding : i <= j
             IN  [voices |-> [vm.voices EXCEPT ![first] =
                                 [phase |-> "Released", note |-> note,
                                  counter |-> vm.counter]],
                  counter |-> vm.counter + 1]

\* VoiceManager::process as far as the voices' phases go: a block of no
\* samples returns at once; else every active voice is processed, and one
\* whose Voice::process returns false is switched Off
process_voices(vm, len, quiet) ==
    IF len = 0 THEN vm
    ELSE [vm EXCEPT !.voices =
            [i \in 1..Len(vm.voices) |->
                IF vm.voices[i].phase # "Off" /\ i \in quiet
                THEN [vm.voices[i] EXCEPT !.phase = "Off", !.note = 0]
                ELSE vm.voices[i]]]

\* The `match event` of process_midi
apply_event(vm, event) ==
    IF event.type = "NoteOn" THEN trigger(vm, event.note)
    ELSE release(vm, event.note)

\* What the sounding voices add to one sample
RECURSIVE voices_sum(_, _)
voices_sum(voices, k) ==
    IF k > Len(voices) THEN 0
    ELSE voices_sum(voices, k + 1)
            + (CASE voices[k].phase = "On"       -> VoiceLevel
                 [] voices[k].phase = "Released" -> ReleaseLevel
                 [] voices[k].phase = "Off"      -> 0)

\* VoiceManager::process on the samples [start, start + n) of the block: an
\* empty slice is left alone, else it is cleared and every active voice is
\* added.  `out` is the whole block.
vm_process(vm, out, start, n) ==
    [s \in 1..Len(out) |->
        IF s > start /\ s <= start + n THEN voices_sum(vm.voices, 1) ELSE out[s]]

\* VoiceManager::process_midi from event k on.  st = [vm, out, start, len,
\* rendered, applied, panic]: `vout` is the part [start, start + len) of the
\* block; `rendered` lists the parts handed to process and `applied` the block
\* offset at which each event was applied.  `vout.slice_mut(..time)` panics
\* when time is beyond the length of vout.
RECURSIVE process_midi(_, _, _)
process_midi(st, midi_in, k) ==
    IF k > Len(midi_in)
    THEN [st EXCEPT !.out = vm_process(st.vm, st.out, st.start, st.len),
                    !.rendered = Append(@, [from |-> st.start,
                                            to |-> st.start + st.len]),
                    !.start = st.start + st.len, !.len = 0]
    ELSE LET time == midi_in[k].time
         IN  IF time > st.len
             THEN [st EXCEPT !.panic = "range end index out of range"]
             ELSE process_midi(
                    [st EXCEPT !.out = vm_process(st.vm, st.out, st.start, time),
                               !.rendered = Append(@, [from |-> st.start,
                                                       to |-> st.start + time]),
                               !.start = st.start + time,
                               !.len = st.len - time,
                               !.vm = apply_event(st.vm, midi_in[k].event),
                               !.applied = Append(@, st.start + time)],
                    midi_in, k + 1)

\* The content of a block before it is rendered
Stale == 0 - 1

\* The log of a voice manager's use: the last call, its arguments, the
\* manager it found, and for process_midi what it rendered
VoiceLogInit ==
    [op |-> "new", len |-> 0, midi_in |-> << >>, out |-> << >>,
     rendered |-> << >>, applied |-> << >>, note |-> 0, before |-> << >>]

\* The voice manager after VoiceManager::new
VoiceIdle ==
    /\ voice_manager = VoiceManager_new
    /\ voice_panic = "none"
    /\ voice_log = VoiceLogInit

----------------------------------------------------------------------------
\* The adapter on its own (src/src/audio/adapter.rs), with N = OUTPUT_SIZE and
\* a factory that produces the samples 1, 2, 3, ... in blocks of N

\* fill is called while at most this many samples have been delivered
MaxTaken == 100

\* The lengths of the slices fill is called with
FillLens == {0, 1, OUTPUT_SIZE - 1, OUTPUT_SIZE, OUTPUT_SIZE + 1, 2 * OUTPUT_SIZE + 1}

\* The k-th block the factory writes into the buffer it is passed
FactoryBlock(k) == [x \in 1..OUTPUT_SIZE |-> (k - 1) * OUTPUT_SIZE + x]

\* FixedOutputAdapter::fill with `room` samples of the output still to write.
\* st = [adapter, out, made, early]: `made` counts the calls of the factory
\* and `early` tells that one was made while unread samples were buffered.
RECURSIVE fill_output(_, _)
fill_output(st, room) ==
    LET rd   == adapter_read(st.adapter, room)
        left == room - Len(rd.samples)
    IN  IF left = 0
        THEN [st EXCEPT !.adapter = rd.adapter, !.out = @ \o rd.samples]
        ELSE fill_output([adapter |-> [buffer |-> FactoryBlock(st.made + 1), idx |-> 0],
                   out     |-> st.out \o rd.samples,
                   made    |-> st.made + 1,
                   early   |-> st.early \/ rd.adapter.idx < OUTPUT_SIZE],
                  left)

\* The log of an adapter's use: the length and the output of the last fill,
\* the samples delivered by all fills, the calls of the factory
AdapterLogInit ==
    [op |-> "new", len |-> 0, out |-> << >>, taken |-> 0, made |-> 0,
     early |-> FALSE]

\* The adapter after FixedOutputAdapter::new
AdapterIdle ==
    /\ fixed_adapter = FixedOutputAdapter_default
    /\ adapter_log = AdapterLogInit

\* FixedOutputAdapter::fill
AdFill(len) ==
    /\ adapter_log.taken <= MaxTaken
    /\ LET done == fill_output([adapter |-> fixed_adapter, out |-> << >>,
                         made |-> adapter_log.made, early |-> adapter_log.early],
                        len)
       IN  /\ fixed_adapter' = done.adapter
           /\ adapter_log' = [op |-> "fill", len |-> len, out |-> done.out,
                              taken |-> adapter_log.taken + Len(done.out),
                              made |-> done.made, early |-> done.early]
    /\ UNCHANGED non_adapter_vars

\* The events of a block of `len` samples: sorted by ascending offset, none
\* beyond the end of the block
MidiBlocks(len) ==
    {m \in SeqsOf([time : 0..len, event : MidiEvents], 0, MaxEvents) :
        \A i \in 1..(Len(m) - 1) : m[i].time <= m[i + 1].time}

\* VoiceManager::process_midi
VmProcessMidi(midi_in, len) ==
    /\ voice_panic = "none"
    /\ voice_manager.counter <= MaxCounter
    /\ LET done == process_midi([vm |-> voice_manager,
                                 out |-> [s \in 1..len |-> Stale],
                                 start |-> 0, len |-> len,
                                 rendered |-> << >>, applied |-> << >>,
                                 panic |-> "none"],
                                midi_in, 1)
       IN  /\ voice_manager' = done.vm
           /\ voice_panic' = done.panic
           /\ voice_log' = [op |-> "process_midi", len |-> len,
                            midi_in |-> midi_in, out |-> done.out,
                            rendered |-> done.rendered, applied |-> done.applied,
                            note |-> 0, before |-> voice_manager]
    /\ UNCHANGED non_voice_vars

\* VoiceManager::trigger
VmTrigger(note) ==
    /\ voice_panic = "none"
    /\ voice_manager.counter < MaxVoiceCalls
    /\ voice_manager' = trigger(voice_manager, note)
    /\ voice_log' = [VoiceLogInit EXCEPT !.op = "trigger", !.note = note,
                                         !.before = voice_manager]
    /\ UNCHANGED <<voice_panic, non_voice_vars>>

\* VoiceManager::release
VmRelease(note) ==
    /\ voice_panic = "none"
    /\ voice_manager.counter < MaxVoiceCalls
    /\ voice_manager' = release(voice_manager, note)
    /\ voice_log' = [VoiceLogInit EXCEPT !.op = "release", !.note = note,
                                         !.before = voice_manager]
    /\ UNCHANGED <<voice_panic, non_voice_vars>>

\* VoiceManager::process on a block of `len` samples, where Voice::process
\* returns false for the voices in `quiet`
VmProcess(len, quiet) ==
    /\ voice_panic = "none"
    /\ voice_manager' = process_voices(voice_manager, len, quiet)
    /\ voice_log' = [VoiceLogInit EXCEPT !.op = "process", !.len = len,
                                         !.before = voice_manager]
    /\ UNCHANGED <<voice_panic, non_voice_vars>>

----------------------------------------------------------------------------
\* Device handles and the maps keyed by them (slotmap crate, as used by
\* engine.rs:13-29)

\* A DeviceId is a slot index with the version the slot had when it was filled.
DeviceId(idx, version) == [idx |-> idx, version |-> version]

\* DeviceId::null()
NullId == DeviceId(0, 1)

\* SlotMap: slots[idx] = [version, value, next_free]; a slot is occupied iff its
\* version is odd; free_head heads the list of vacant slots (0: none).
SlotMapNew == [slots |-> << >>, free_head |-> 0]

SlotMapContains(sm, key) ==
    /\ key.idx \in 1..Len(sm.slots)
    /\ sm.slots[key.idx].version = key.version

SlotMapGet(sm, key) == sm.slots[key.idx].value

\* SlotMap::insert giving a reused slot the version it had before its removal
SlotMapInsert_SameVersion(sm, value) ==
    IF sm.free_head # 0
    THEN LET idx  == sm.free_head
             slot == sm.slots[idx]
         IN  [map |-> [slots |-> [sm.slots EXCEPT ![idx] =
                                    [version |-> slot.version - 1,
                                     value |-> value, next_free |-> 0]],
                       free_head |-> slot.next_free],
              key |-> DeviceId(idx, slot.version - 1)]
    ELSE [map |-> [slots |-> Append(sm.slots,
                                    [version |-> 1, value |-> value, next_free |-> 0]),
                   free_head |-> 0],
          key |-> DeviceId(Len(sm.slots) + 1, 1)]

\* SlotMap::insert: reuses the most recently vacated slot with its version
\* raised, else appends a slot of version 1.
SlotMapInsert(sm, value) ==
    IF sm.free_head # 0
    THEN LET idx  == sm.free_head
             slot == sm.slots[idx]
         IN  [map |-> [slots |-> [sm.slots EXCEPT ![idx] =
                                    [version |-> slot.version + 1,
                                     value |-> value, next_free |-> 0]],
                       free_head |-> slot.next_free],
              key |-> DeviceId(idx, slot.version + 1)]
    ELSE [map |-> [slots |-> Append(sm.slots,
                                    [version |-> 1, value |-> value, next_free |-> 0]),
                   free_head |-> 0],
          key |-> DeviceId(Len(sm.slots) + 1, 1)]

\* What a vacant slot holds in place of the Box<dyn Processor> it dropped
Dropped == [kind |-> "dropped", rate |-> 0]

\* SlotMap::remove: raises the version, which makes the slot vacant and its
\* value unreachable; a stale or null key removes nothing.
SlotMapRemove(sm, key) ==
    IF ~SlotMapContains(sm, key) THEN sm
    ELSE [slots |-> [sm.slots EXCEPT ![key.idx] =
                        [version |-> key.version + 1, value |-> Dropped,
                         next_free |-> sm.free_head]],
          free_head |-> key.idx]

\* The keys of the devices now registered (SlotMap::values_mut visits them)
SlotMapKeys(sm) ==
    {DeviceId(i, sm.slots[i].version) :
        i \in {j \in 1..Len(sm.slots) : sm.slots[j].version % 2 = 1}}

\* SecondaryMap: m[idx] = [version, value]; version 0 is a vacant slot.
SecondaryMapNew == [i \in 1..MaxDevices |-> [version |-> 0, value |-> << >>]]

SecondaryHas(m, key) ==
    key.idx \in DOMAIN m /\ m[key.idx].version = key.version

SecondaryGet(m, key) == m[key.idx].value

\* SecondaryMap::entry returns None for the null key and for a key older than
\* the one stored in its slot.
SecondaryEntryIsNone(m, key) ==
    \/ key.idx \notin DOMAIN m
    \/ m[key.idx].version > key.version

\* SecondaryMap::insert: ignored for the null key and for a key older than the
\* one stored in its slot.
SecondaryInsert(m, key, value) ==
    IF SecondaryEntryIsNone(m, key) THEN m
    ELSE [m EXCEPT ![key.idx] = [version |-> key.version, value |-> value]]

\* SecondaryMap::remove
SecondaryRemove(m, key) ==
    IF ~SecondaryHas(m, key) THEN m
    ELSE [m EXCEPT ![key.idx] = [version |-> 0, value |-> << >>]]

\* HashMap::insert on a map held as a function
MapInsert(m, key, value) ==
    [k \in DOMAIN m \cup {key} |-> IF k = key THEN value ELSE m[k]]

EmptyMap == [k \in {} |-> 0]

----------------------------------------------------------------------------
\* Processors (processor.rs:37-57 and the implementations the engine drives)

Kinds == {"AudioInput", "Gain", "AudioOutput", "MidiInput"}

\* A MIDI source and a processor to receive its events
MidiKinds == {"MidiInput", "Gain"}

\* The processors that take or give audio
AudioKinds == {"AudioInput", "Gain", "AudioOutput"}

\* Processor::description
description(kind) ==
    CASE kind = "AudioInput"  ->
            [min_audio_ins |-> 0, max_audio_ins |-> 0, num_audio_outs |-> 2]
      [] kind = "Gain"        ->
            [min_audio_ins |-> 0, max_audio_ins |-> 2, num_audio_outs |-> 2]
      [] kind = "AudioOutput" ->
            [min_audio_ins |-> 2, max_audio_ins |-> 2, num_audio_outs |-> 0]
      [] kind = "MidiInput"   ->
            [min_audio_ins |-> 0, max_audio_ins |-> 0, num_audio_outs |-> 0]

\* The scale of a Gain after set_gain: it doubles its input
GainScale == 2

\* `mul * *sample_in`, saturating
Scaled(x) == Min(GainScale * x, MaxSample)

\* The block the hardware delivers on a channel of an AudioInput:
\* left is all 1, right is all 2 (uninterleave_stereo of the captured frames)
HwBlock(ch, len) == [s \in 1..len |-> ch]

\* Processor::process of each kind.  audio_in: the input blocks; audio_out: the
\* content of the output views before the call; feed: the events waiting on a
\* MidiInput's channel.  Gives the content of the output views after the call,
\* the output channels written, and the events pushed to midi_out.
device_process(kind, len, audio_in, audio_out, feed) ==
    CASE kind = "AudioInput" ->
            [audio_out |-> [c \in 1..Len(audio_out) |-> HwBlock(c, len)],
             wrote |-> 1..Len(audio_out), midi_out |-> << >>]
      [] kind = "Gain" ->
            [audio_out |-> [c \in 1..Len(audio_out) |->
                              IF c <= Len(audio_in)
                              THEN [s \in 1..len |-> Scaled(audio_in[c][s])]
                              ELSE audio_out[c]],
             wrote |-> 1..Min(Len(audio_in), Len(audio_out)), midi_out |-> << >>]
      [] kind = "AudioOutput" ->
            [audio_out |-> audio_out, wrote |-> {}, midi_out |-> << >>]
      [] kind = "MidiInput" ->
            [audio_out |-> audio_out, wrote |-> {},
             midi_out |-> [i \in 1..Len(feed) |-> [time |-> 0, event |-> feed[i]]]]

----------------------------------------------------------------------------
\* Delay (processor/delay.rs:24-45)

\* The delay effect counts seconds in units of 1/MillisPerSecond s
MillisPerSecond == 1000
MIN_DELAY == 1
MAX_DELAY == 5000

\* `(seconds * sample_rate) as usize` for seconds given in milliseconds
SamplesInMillis(millis, rate) == (millis * rate) \div MillisPerSecond

\* DelayLine::new, as far as set_sample_rate and seek use the line
FxLine_new(max_delay) ==
    [ring |-> RingBuffer_new(0),
     max_delay |-> max_delay,
     sample_rate |-> 0,
     target_delay |-> 0]

\* Delay::new
Delay_new ==
    [delay_lines |-> <<FxLine_new(MAX_DELAY), FxLine_new(MAX_DELAY)>>,
     sample_rate |-> 0,
     delay |-> 1]

\* Delay::set_delay
set_delay(d, delay) == [d EXCEPT !.delay = Clamp(delay, MIN_DELAY, MAX_DELAY)]

\* DelayLine::set_sample_rate on a line of the effect
fx_line_set_sample_rate(line, rate) ==
    [line EXCEPT !.sample_rate = rate,
                 !.ring = RingBuffer_new(SamplesInMillis(line.max_delay, rate))]

\* The seek Delay::set_sample_rate asks a line for: the target delay is set
\* as set_target_delay sets it and the ring is sought to it
fx_line_seek(line, delay) ==
    LET target == SamplesInMillis(delay, line.sample_rate)
        res == ring_seek(line.ring, target)
    IN  [panic |-> res.panic,
         line |-> [line EXCEPT !.target_delay = target, !.ring = res.ring]]

\* Delay::set_sample_rate: the lines are configured and sought in turn, and
\* the first panic ends the call
RECURSIVE fx_lines_set_sample_rate(_, _, _, _)
fx_lines_set_sample_rate(lines, k, rate, delay) ==
    IF k > Len(lines) THEN [panic |-> "none", lines |-> lines]
    ELSE LET res == fx_line_seek(fx_line_set_sample_rate(lines[k], rate), delay)
             next == [lines EXCEPT ![k] = res.line]
         IN  IF res.panic # "none" THEN [panic |-> res.panic, lines |-> next]
             ELSE fx_lines_set_sample_rate(next, k + 1, rate, delay)

\* A delay effect that is not used
DelayFxIdle ==
    /\ delay_fx = Delay_new
    /\ delay_fx_panic = "none"
    /\ delay_fx_log = [op |-> "new", arg |-> 0]

FxSetDelay(delay) ==
    /\ delay_fx_panic = "none"
    /\ delay_fx' = set_delay(delay_fx, delay)
    /\ delay_fx_log' = [op |-> "set_delay", arg |-> delay]
    /\ UNCHANGED <<delay_fx_panic, non_delay_fx_vars>>

FxSetSampleRate(rate) ==
    /\ delay_fx_panic = "none"
    /\ LET res == fx_lines_set_sample_rate(delay_fx.delay_lines, 1, rate,
                                           delay_fx.delay)
       IN  /\ delay_fx' = [delay_fx EXCEPT !.sample_rate = rate,
                                           !.delay_lines = res.lines]
           /\ delay_fx_panic' = res.panic
    /\ delay_fx_log' = [op |-> "set_sample_rate", arg |-> rate]
    /\ UNCHANGED non_delay_fx_vars

----------------------------------------------------------------------------
\* Chord (processor/chord.rs)

\* The positions i >= k, below the width `bits`, at which bit i - k of x is
\* set: `(x >> (i - k)) & 1 == 1`
RECURSIVE SetBits(_, _, _)
SetBits(x, k, bits) ==
    IF x = 0 \/ k >= bits THEN {}
    ELSE (IF x % 2 = 1 THEN {k} ELSE {}) \cup SetBits(x \div 2, k + 1, bits)

\* The width of the chord word and of the note masks
ChordBits == 64
NoteMaskBits == 128
\* Note is a u8
MaxNote == 255

\* Chord::new
Chord_new == [channel |-> 0, chord |-> 1, notes |-> << >>]

\* Chord::chord_notes: the offsets whose bit is set in the chord word
chord_notes(c) == SetBits(c.chord, 0, ChordBits)

\* Note::transpose: `self.0.saturating_add_signed(offset)`
transpose(note, offset) == Max(0, Min(note + offset, MaxNote))

\* to_mask without the reduction of the shift amount
to_mask_Unreduced(dsts, checked) ==
    [panic |-> "none", mask |-> {dsts[k] : k \in 1..Len(dsts)}]

\* to_mask: `out |= 1 << note.0` for each note.  A shift by 128 or more
\* panics in a build with overflow checks, and in one without them the shift
\* amount is reduced modulo 128.
to_mask(dsts, checked) ==
    IF checked /\ \E k \in 1..Len(dsts) : dsts[k] >= NoteMaskBits
    THEN [panic |-> "attempt to shift left with overflow", mask |-> {}]
    ELSE [panic |-> "none",
          mask |-> {dsts[k] % NoteMaskBits : k \in 1..Len(dsts)}]

\* Chord::get_mask
get_mask(c, checked) ==
    to_mask([k \in 1..Len(c.notes) |-> c.notes[k].dst], checked)

\* `self.notes.retain(|n| n.src != note)`
retain_other(notes, note) == SelectSeq(notes, LAMBDA n : n.src # note)

\* The members of a set of numbers in ascending order, as the loops
\* `(0..64).filter(..)` and `for i in 0..128` visit them
RECURSIVE Ascending(_)
Ascending(S) ==
    IF S = {} THEN << >>
    ELSE LET least == CHOOSE x \in S : \A y \in S : x <= y
         IN  <<least>> \o Ascending(S \ {least})

\* The notes pushed for a NoteOn, in ascending order of the offset
generated(note, offsets) ==
    LET order == Ascending(offsets)
    IN  [k \in 1..Len(order) |-> [src |-> note, dst |-> transpose(note, order[k])]]

\* diff_masks: the callbacks in ascending order of the note, as the events
\* the NoteOn branch pushes for them
diff_masks(prev, next) ==
    LET order == Ascending({i \in prev \cup next :
                               i < NoteMaskBits /\ (i \in prev) # (i \in next)})
    IN  [k \in 1..Len(order) |->
            [type |-> IF order[k] \in next THEN "NoteOn" ELSE "NoteOff",
             note |-> order[k]]]

\* One iteration of the loop of Chord::process.  st = [c, out, panic]; an
\* event is [channel, type, note].
chord_event(st, event, checked) ==
    IF event.channel # st.c.channel \/ event.type \notin {"NoteOn", "NoteOff"}
    THEN [st EXCEPT !.out = Append(@, event)]
    ELSE LET prev == get_mask(st.c, checked)
             kept == retain_other(st.c.notes, event.note)
             c1 == [st.c EXCEPT !.notes =
                       IF event.type = "NoteOn"
                       THEN kept \o generated(event.note, chord_notes(st.c))
                       ELSE kept]
             next == get_mask(c1, checked)
             diff == diff_masks(prev.mask, next.mask)
             pushed == [k \in 1..Len(diff) |->
                          [channel |-> event.channel, type |-> diff[k].type,
                           note |-> diff[k].note]]
         IN  IF prev.panic # "none" THEN [st EXCEPT !.panic = prev.panic]
             ELSE IF next.panic # "none"
             THEN [st EXCEPT !.c = c1, !.panic = next.panic]
             ELSE IF event.type = "NoteOff"
                     /\ \E k \in 1..Len(diff) : diff[k].type = "NoteOn"
             THEN [st EXCEPT !.c = c1,
                             !.panic = "internal error: entered unreachable code"]
             ELSE [st EXCEPT !.c = c1, !.out = @ \o pushed]

\* Chord::process from event k on
RECURSIVE chord_process(_, _, _, _)
chord_process(st, midi_in, k, checked) ==
    IF k > Len(midi_in) \/ st.panic # "none" THEN st
    ELSE chord_process(chord_event(st, midi_in[k], checked), midi_in, k + 1,
                       checked)

\* The notes sounding after the events of `out`, on the channel `channel`
RECURSIVE sounding_after(_, _, _, _)
sounding_after(sounding, out, k, channel) ==
    IF k > Len(out) THEN sounding
    ELSE sounding_after(
            IF out[k].channel # channel THEN sounding
            ELSE IF out[k].type = "NoteOn" THEN sounding \cup {out[k].note}
            ELSE IF out[k].type = "NoteOff" THEN sounding \ {out[k].note}
            ELSE sounding,
            out, k + 1, channel)

\* The chord tones of the input notes held after the events of midi_in:
\* held[n] is the set of tones of the note n, empty when it is not held
RECURSIVE held_after(_, _, _, _)
held_after(held, midi_in, k, c) ==
    IF k > Len(midi_in) THEN held
    ELSE held_after(
            IF midi_in[k].channel # c.channel THEN held
            ELSE IF midi_in[k].type = "NoteOn"
            THEN [held EXCEPT ![midi_in[k].note] =
                     {transpose(midi_in[k].note, i) : i \in chord_notes(c)}]
            ELSE IF midi_in[k].type = "NoteOff"
            THEN [held EXCEPT ![midi_in[k].note] = {}]
            ELSE held,
            midi_in, k + 1, c)

\* The notes of the input events
ChordNotes == {60, 64, 124}

\* The log of a chord processor's use: whether the build checks overflow,
\* the last call and what it pushed, the tones of the notes held on the
\* input, and the notes sounding on the output
ChordLogInit(checked) ==
    [checked |-> checked, op |-> "new", out |-> << >>,
     held |-> [n \in ChordNotes |-> {}], sounding |-> {}]

\* A chord processor that is not used
ChordIdle ==
    /\ chord_st = Chord_new
    /\ chord_panic = "none"
    /\ chord_log = ChordLogInit(TRUE)

\* A chord processor has been created, in a build with or without overflow
\* checks
ChordInit ==
    /\ chord_st = Chord_new
    /\ chord_panic = "none"
    /\ \E checked \in BOOLEAN : chord_log = ChordLogInit(checked)

\* Chord::set_chord
ChSetChord(chord) ==
    /\ chord_panic = "none"
    /\ chord_st' = [chord_st EXCEPT !.chord = chord]
    /\ chord_log' = [chord_log EXCEPT !.op = "set_chord", !.out = << >>]
    /\ UNCHANGED <<chord_panic, non_chord_vars>>

\* Chord::process
ChProcess(midi_in) ==
    /\ chord_panic = "none"
    /\ LET done == chord_process([c |-> chord_st, out |-> << >>,
                                  panic |-> "none"],
                                 midi_in, 1, chord_log.checked)
       IN  /\ chord_st' = done.c
           /\ chord_panic' = done.panic
           /\ chord_log' = [chord_log EXCEPT
                  !.op = "process", !.out = done.out,
                  !.held = held_after(@, midi_in, 1, chord_st),
                  !.sounding = sounding_after(@, done.out, 1, chord_st.channel)]
    /\ UNCHANGED non_chord_vars

----------------------------------------------------------------------------
\* Sampler (processor/sampler.rs); the two channels hold the same samples and
\* are resampled alike, so one of them is modelled

\* `vec![0.0; 1024]`: the buffer Sampler::new starts with
InitialBuffer == 1024

\* The sample at position i of one channel of a clip
ClipAt(clip, i) == IF clip.silent THEN 0 ELSE SourceAt(i)

\* `vin.slice(from..to)`
ClipSlice(clip, from, to) == [k \in 1..(to - from) |-> ClipAt(clip, from + k - 1)]

\* Sampler::new
Sampler_new ==
    [clip |-> [len |-> InitialBuffer \div 2, silent |-> TRUE],
     read_idx |-> 0,
     sample_rate_in |-> 0,
     sample_rate_out |-> 0,
     samplers |-> Resampler_new,
     one_hit |-> FALSE]

\* No call of process is under way.  `odd` tells whether the loop of
\* fill_buffers has taken an odd number of iterations.
NoCall ==
    [pc |-> "idle", len |-> 0, ratio |-> 0, input_size |-> 0, idx |-> 0,
     out_remain |-> 0, filled |-> << >>, out |-> << >>, odd |-> FALSE]

\* Sampler::set_sample with a clip of `len` samples per channel
set_sample(sm, len, rate) ==
    [sm EXCEPT !.clip = [len |-> len, silent |-> FALSE],
               !.sample_rate_in = rate,
               !.read_idx = 0]

\* The resampling ratio of Sampler::process, in units of 1/FracDen
sampler_ratio(sm) ==
    IF sm.sample_rate_in > 0 /\ sm.sample_rate_out > 0
    THEN (sm.sample_rate_in * FracDen) \div sm.sample_rate_out
    ELSE One

\* One iteration of the loop of Sampler::fill_buffers: [panic, call]
fill_step(sm, call) ==
    LET in_remain == sm.clip.len - call.idx
    IN  IF in_remain < 0
        THEN [panic |-> "attempt to subtract with overflow", call |-> call]
        ELSE IF call.out_remain > in_remain
        THEN LET copied == [call EXCEPT
                    !.filled = @ \o ClipSlice(sm.clip, call.idx, sm.clip.len),
                    !.out_remain = @ - in_remain,
                    !.idx = 0]
             IN  [panic |-> "none",
                  call |-> IF sm.one_hit
                           THEN [copied EXCEPT
                                    !.filled = @ \o [k \in 1..copied.out_remain |-> 0],
                                    !.out_remain = 0, !.pc = "filled"]
                           ELSE copied]
        ELSE [panic |-> "none",
              call |-> [call EXCEPT
                 !.filled = @ \o ClipSlice(sm.clip, call.idx,
                                           call.idx + call.out_remain),
                 !.out_remain = 0,
                 !.pc = "filled"]]

\* The end of Sampler::process: the filled input is resampled and the read
\* position advances by the offset: [panic, sm, out]
sampler_finish(sm, call) ==
    LET res == resample(sm.samplers, call.filled, call.len, call.ratio)
        at == sm.read_idx + res.offset
    IN  IF res.panic # "none" THEN [panic |-> res.panic, sm |-> sm, out |-> << >>]
        ELSE IF sm.one_hit
        THEN [panic |-> "none", out |-> res.out,
              sm |-> [sm EXCEPT !.samplers = res.rs,
                                !.read_idx = Min(at, sm.clip.len)]]
        ELSE IF sm.clip.len = 0
        THEN [panic |-> "attempt to calculate the remainder with a divisor of zero",
              sm |-> [sm EXCEPT !.samplers = res.rs], out |-> res.out]
        ELSE [panic |-> "none", out |-> res.out,
              sm |-> [sm EXCEPT !.samplers = res.rs,
                                !.read_idx = at % sm.clip.len]]

\* A sampler that is not used
SamplerIdle ==
    /\ sampler_st = Sampler_new
    /\ sampler_call = NoCall
    /\ sampler_panic = "none"

\* Sampler::set_sample
SmSetSample(len, rate) ==
    /\ sampler_panic = "none"
    /\ sampler_call.pc = "idle"
    /\ sampler_st' = set_sample(sampler_st, len, rate)
    /\ sampler_call' = NoCall
    /\ UNCHANGED <<sampler_panic, non_sampler_vars>>

\* Sampler::set_sample_rate
SmSetSampleRate(rate) ==
    /\ sampler_panic = "none"
    /\ sampler_call.pc = "idle"
    /\ sampler_st' = [sampler_st EXCEPT !.sample_rate_out = rate]
    /\ sampler_call' = NoCall
    /\ UNCHANGED <<sampler_panic, non_sampler_vars>>

\* Sampler::process is called with a block of `len` samples: the ratio and
\* the input size are computed and fill_buffers is entered
SmProcessBegin(len) ==
    /\ sampler_panic = "none"
    /\ sampler_call.pc = "idle"
    /\ sampler_st.read_idx <= MaxPos
    /\ LET ratio == sampler_ratio(sampler_st)
           input_size == next_input_size(sampler_st.samplers, len, ratio)
       IN  sampler_call' = [pc |-> "fill", len |-> len, ratio |-> ratio,
                            input_size |-> input_size,
                            idx |-> sampler_st.read_idx,
                            out_remain |-> input_size,
                            filled |-> << >>, out |-> << >>, odd |-> FALSE]
    /\ UNCHANGED <<sampler_st, sampler_panic, non_sampler_vars>>

\* One iteration of the loop of fill_buffers
SmFillStep ==
    /\ sampler_panic = "none"
    /\ sampler_call.pc = "fill"
    /\ LET res == fill_step(sampler_st, sampler_call)
       IN  /\ sampler_call' = [res.call EXCEPT !.odd = ~@]
           /\ sampler_panic' = res.panic
    /\ UNCHANGED <<sampler_st, non_sampler_vars>>

\* fill_buffers has returned: process resamples and returns
SmProcessEnd ==
    /\ sampler_panic = "none"
    /\ sampler_call.pc = "filled"
    /\ LET res == sampler_finish(sampler_st, sampler_call)
       IN  /\ sampler_st' = res.sm
           /\ sampler_panic' = res.panic
           /\ sampler_call' = [sampler_call EXCEPT !.pc = "idle", !.out = res.out]
    /\ UNCHANGED non_sampler_vars

----------------------------------------------------------------------------
\* AudioOutput (processor/io.rs:47-115).  AudioOutput::process runs on the
\* engine's thread and the output callback on the device's thread; they share
\* the ring `channel` and the zero-capacity channel `notify`.  The samples in
\* the ring are counted, not kept.

\* `Producer::remaining`: the free space of the ring
remaining(out) == OutCapacity - out.occupied

\* `rx.pop_slice(data)`: the number of samples taken from the ring
pop_slice(occupied, data_len) == Min(data_len, occupied)

\* `tx2.try_send(())` that never delivers
try_send_Never(receiving) == FALSE

\* `tx2.try_send(())` on a channel of capacity 0: the message is delivered
\* if the receiver is blocked in recv, and dropped otherwise
try_send(receiving) == receiving

\* AudioOutput::from_cpal: an empty ring, an empty buffer, a stream whose
\* callback is not running
OutputIdle ==
    /\ output_st = [occupied |-> 0, buffer_len |-> 0, pc |-> "idle"]
    /\ callback_st = [pc |-> "idle", popped |-> 0]
    /\ output_log = [dropped |-> FALSE, woken |-> FALSE]

\* AudioOutput::process is called with two channels of `len` samples:
\* self.buffer is resized and filled
OutBegin(len) ==
    /\ output_st.pc = "idle"
    /\ output_st' = [output_st EXCEPT !.buffer_len = len + len, !.pc = "check"]
    /\ output_log' = [dropped |-> FALSE, woken |-> FALSE]
    /\ UNCHANGED <<callback_st, non_output_vars>>

\* `while self.channel.remaining() < self.buffer.len()`
OutCheck ==
    /\ output_st.pc = "check"
    /\ output_st' = [output_st EXCEPT !.pc =
                        IF remaining(output_st) < output_st.buffer_len
                        THEN "enter" ELSE "push"]
    /\ UNCHANGED <<callback_st, output_log, non_output_vars>>

\* `self.notify.recv()` is entered: the thread blocks as the receiver
OutRecv ==
    /\ output_st.pc = "enter"
    /\ output_st' = [output_st EXCEPT !.pc = "recv"]
    /\ UNCHANGED <<callback_st, output_log, non_output_vars>>

\* `self.channel.push_slice(&self.buffer)`, and process returns
OutPush ==
    /\ output_st.pc = "push"
    /\ output_st' = [output_st EXCEPT
                        !.occupied = @ + Min(output_st.buffer_len, remaining(output_st)),
                        !.pc = "idle"]
    /\ UNCHANGED <<callback_st, output_log, non_output_vars>>

\* The device invokes the callback with `data_len` samples to fill:
\* `rx.pop_slice(data)`
CbPop(data_len) ==
    /\ callback_st.pc = "idle"
    /\ LET popped == pop_slice(output_st.occupied, data_len)
       IN  /\ output_st' = [output_st EXCEPT !.occupied = @ - popped]
           /\ callback_st' = [pc |-> "send", popped |-> popped]
    /\ UNCHANGED <<output_log, non_output_vars>>

\* `tx2.try_send(()).ok()`, and the callback returns: a delivered message
\* ends the recv of process
CbTrySend ==
    /\ callback_st.pc = "send"
    /\ callback_st' = [callback_st EXCEPT !.pc = "idle"]
    /\ IF try_send(output_st.pc = "recv")
       THEN /\ output_st' = [output_st EXCEPT !.pc = "check"]
            /\ output_log' = [output_log EXCEPT !.woken = TRUE]
       ELSE /\ output_st' = output_st
            /\ output_log' = [output_log EXCEPT
                                 !.dropped = @ \/ output_st.pc = "enter"]
    /\ UNCHANGED non_output_vars

\* The processors that are not used
ProcessorsIdle == DelayFxIdle /\ ChordIdle /\ SamplerIdle /\ OutputIdle

----------------------------------------------------------------------------
\* AudioEngine (engine.rs:31-238)

\* The events waiting on a MidiInput's channel when a block is processed
MidiFeed == <<"NoteOn", "NoteOff">>

\* Vec::resize
Resize(v, n, fill) == [i \in 1..n |-> IF i <= Len(v) THEN v[i] ELSE fill]

\* The samples of the master array a view covers
ViewContent(buffers, v) == [s \in 1..v.len |-> buffers[v.start + s]]

\* The master array after the blocks are stored through the views, in channel
\* order
RECURSIVE WriteViews(_, _, _, _)
WriteViews(buffers, views, blocks, c) ==
    IF c > Len(views) THEN buffers
    ELSE WriteViews([i \in 1..Len(buffers) |->
                        IF i > views[c].start /\ i <= views[c].start + views[c].len
                        THEN blocks[c][i - views[c].start]
                        ELSE buffers[i]],
                    views, blocks, c + 1)

\* The wired inputs of a device: `audio_inputs.get(device_id)...unwrap_or(&[])`
wired_inputs(device_id) ==
    IF SecondaryHas(audio_inputs, device_id)
    THEN SecondaryGet(audio_inputs, device_id)
    ELSE << >>

\* input_index with the slot table never consulted
input_index_Unmapped(inputs, ch) == 0

\* The slot of input channel ch (from 0):
\* `inputs.get(ch).and_then(|i| self.audio_map.get(i)).copied().unwrap_or(0)`
input_index(inputs, ch) ==
    IF ch < Len(inputs) /\ inputs[ch + 1] \in DOMAIN audio_map
    THEN audio_map[inputs[ch + 1]]
    ELSE 0

\* The slot of output channel ch (from 0):
\* `self.audio_map.get(&(device_id, ch)).copied().unwrap_or(0)`
output_index(device_id, ch) ==
    IF <<device_id, ch>> \in DOMAIN audio_map
    THEN audio_map[<<device_id, ch>>]
    ELSE 0

\* The MIDI input of a device:
\* `midi_inputs.get(device_id).and_then(|i| midi_map.get(i))
\*      .map(|idx| &midi_buffers[*idx][..]).unwrap_or(&[])`
midi_input(device_id, buffers) ==
    IF /\ SecondaryHas(midi_inputs, device_id)
       /\ SecondaryGet(midi_inputs, device_id) \in DOMAIN midi_map
    THEN buffers[midi_map[SecondaryGet(midi_inputs, device_id)] + 1]
    ELSE << >>

\* One iteration of the loop of process, for the entry at position k of the
\* execution order.  st = [audio_buffers, midi_buffers, calls, panic].
process_device(st, k, len) ==
    LET device_id == device_order[k] IN
    IF ~SlotMapContains(devices, device_id) THEN st
    ELSE
    LET device      == SlotMapGet(devices, device_id)
        descr       == description(device.kind)
        inputs      == wired_inputs(device_id)
        num_inputs  == Clamp(Len(inputs), descr.min_audio_ins, descr.max_audio_ins)
        num_outputs == descr.num_audio_outs
        in_indices  == [c \in 1..num_inputs |-> input_index(inputs, c - 1)]
        out_indices == [c \in 1..num_outputs |-> output_index(device_id, c - 1)]
        borrowed    == borrow_buffers(Len(st.audio_buffers), len,
                                      in_indices, out_indices)
    IN
    IF borrowed.panic # "none" THEN [st EXCEPT !.panic = borrowed.panic]
    ELSE
    LET audio_in  == [c \in 1..num_inputs |->
                        ViewContent(st.audio_buffers, borrowed.audio_in[c])]
        audio_out == [c \in 1..num_outputs |->
                        ViewContent(st.audio_buffers, borrowed.audio_out[c])]
        midi_in   == midi_input(device_id, st.midi_buffers)
        done      == device_process(device.kind, len, audio_in, audio_out, MidiFeed)
        call      == [pos |-> k, id |-> device_id, kind |-> device.kind,
                      in_indices |-> in_indices, out_indices |-> out_indices,
                      audio_in |-> audio_in, audio_out |-> done.audio_out,
                      wrote |-> done.wrote,
                      midi_in |-> midi_in, midi_out |-> done.midi_out]
    IN  [audio_buffers |-> WriteViews(st.audio_buffers, borrowed.audio_out,
                                      done.audio_out, 1),
         midi_buffers  |-> IF device_id \in DOMAIN midi_map
                           THEN [st.midi_buffers EXCEPT
                                    ![midi_map[device_id] + 1] = done.midi_out]
                           ELSE st.midi_buffers,
         calls         |-> Append(st.calls, call),
         panic         |-> "none"]

\* The device loop run from the last entry of the execution order to the first
RECURSIVE process_loop_Backwards(_, _, _)
process_loop_Backwards(st, k, len) ==
    IF k > Len(device_order) \/ st.panic # "none" THEN st
    ELSE process_loop_Backwards(
            process_device(st, Len(device_order) - k + 1, len), k + 1, len)

\* `for &device_id in self.device_order.iter()`, ended by the first panic
RECURSIVE process_loop(_, _, _)
process_loop(st, k, len) ==
    IF k > Len(device_order) \/ st.panic # "none" THEN st
    ELSE process_loop(process_device(st, k, len), k + 1, len)

\* AudioEngine::process after its test of the sample rate: the buffers are
\* sized, slot 0 is cleared and the devices are run in order
process_block(len) ==
    LET resized == Resize(audio_buffers, NumBuffers * len, 0)
        cleared == [i \in 1..Len(resized) |-> IF i <= len THEN 0 ELSE resized[i]]
    IN  process_loop([audio_buffers |-> cleared,
                      midi_buffers  |-> Resize(midi_buffers, NumBuffers, << >>),
                      calls |-> << >>, panic |-> "none"],
                     1, len)

\* AudioEngine::process without its test of the sample rate
process_NoRateCheck(len) == process_block(len)

\* AudioEngine::process: the state the call ends in
process(len) ==
    IF sample_rate = 0
    THEN [audio_buffers |-> audio_buffers, midi_buffers |-> midi_buffers,
          calls |-> << >>, panic |-> "Sample rate has not been set."]
    ELSE process_block(len)

\* set_audio_input growing the table with copies of the new source
set_audio_input_FillSource(table, src_device, src_channel, dst_device, dst_channel) ==
    IF SecondaryEntryIsNone(table, dst_device)
    THEN [panic |-> "Destination device was removed", audio_inputs |-> table]
    ELSE
    LET old == IF SecondaryHas(table, dst_device)
               THEN SecondaryGet(table, dst_device) ELSE << >>
    IN  [panic |-> "none",
         audio_inputs |->
            SecondaryInsert(table, dst_device,
                [Resize(old, Max(Len(old), dst_channel + 1),
                        <<src_device, src_channel>>)
                    EXCEPT ![dst_channel + 1] = <<src_device, src_channel>>])]

\* AudioEngine::set_audio_input on a wiring table: the table it leaves, or the
\* panic of `.expect("Destination device was removed")`
set_audio_input(table, src_device, src_channel, dst_device, dst_channel) ==
    IF SecondaryEntryIsNone(table, dst_device)
    THEN [panic |-> "Destination device was removed", audio_inputs |-> table]
    ELSE
    LET old       == IF SecondaryHas(table, dst_device)
                     THEN SecondaryGet(table, dst_device) ELSE << >>
        input_map == IF dst_channel >= Len(old)
                     THEN Resize(old, dst_channel + 1, <<NullId, 0>>)
                     ELSE old
    IN  [panic |-> "none",
         audio_inputs |->
            SecondaryInsert(table, dst_device,
                [input_map EXCEPT ![dst_channel + 1] = <<src_device, src_channel>>])]

\* AudioEngine::remove_audio_input on a wiring table
remove_audio_input(table, dst_device, dst_channel) ==
    IF SecondaryEntryIsNone(table, dst_device)
    THEN [panic |-> "Destination device was removed", audio_inputs |-> table]
    ELSE
    LET old == IF SecondaryHas(table, dst_device)
               THEN SecondaryGet(table, dst_device) ELSE << >>
    IN  [panic |-> "none",
         audio_inputs |->
            SecondaryInsert(table, dst_device,
                IF dst_channel < Len(old)
                THEN [old EXCEPT ![dst_channel + 1] = <<NullId, 0>>]
                ELSE old)]

\* The slot table test_connect builds: the devices but the last get slots
\* 0,1 / 2,3 / 0,1 / ... (`i = 2 - i`)
RECURSIVE connect_slots(_, _, _, _)
connect_slots(list, k, i, map) ==
    IF k > Len(list) - 1 THEN map
    ELSE connect_slots(list, k + 1, 2 - i,
            MapInsert(MapInsert(map, <<list[k], 0>>, i), <<list[k], 1>>, i + 1))

\* The wiring test_connect makes: `for devices in devices.windows(2)`, ended
\* by the first panic.  st = [panic, audio_inputs].
RECURSIVE connect_wires(_, _, _)
connect_wires(list, k, st) ==
    IF k > Len(list) - 1 \/ st.panic # "none" THEN st
    ELSE LET first == set_audio_input(st.audio_inputs, list[k], 0, list[k + 1], 0)
         IN  connect_wires(list, k + 1,
                IF first.panic # "none" THEN first
                ELSE set_audio_input(first.audio_inputs, list[k], 1, list[k + 1], 1))

EngineInit ==
    /\ sample_rate = 0
    /\ devices = SlotMapNew
    /\ audio_inputs = SecondaryMapNew
    /\ audio_buffers = << >>
    /\ audio_map = EmptyMap
    /\ midi_inputs = SecondaryMapNew
    /\ midi_buffers = << >>
    /\ midi_map = EmptyMap
    /\ device_order = << >>
    /\ handles = EmptyMap
    /\ calls = << >>
    /\ edited = FALSE
    /\ panic = "none"

\* The handles the caller holds, registered or stale
Handles == DOMAIN handles

\* AudioEngine::set_sample_rate
SetSampleRate(rate) ==
    /\ panic = "none"
    /\ sample_rate' = rate
    /\ devices' = [devices EXCEPT !.slots =
                     [i \in 1..Len(devices.slots) |->
                        IF devices.slots[i].version % 2 = 1
                        THEN [devices.slots[i] EXCEPT !.value.rate = rate]
                        ELSE devices.slots[i]]]
    /\ calls' = << >>
    /\ UNCHANGED <<non_engine_vars, catalogue, audio_inputs, audio_buffers, audio_map, midi_inputs,
                   midi_buffers, midi_map, device_order, handles, edited, panic>>

\* AudioEngine::add_device, the sample rate not passed to the device
add_device_NoRate(devs, kind, rate) ==
    SlotMapInsert(devs, [kind |-> kind, rate |-> 0])

\* AudioEngine::add_device on the device table: [map, key].  A device's rate
\* is the one its last set_sample_rate call carried, 0 before any call.
add_device(devs, kind, rate) ==
    SlotMapInsert(devs, [kind |-> kind, rate |-> IF rate > 0 THEN rate ELSE 0])

\* AudioEngine::add_device
AddDevice(kind) ==
    /\ panic = "none"
    /\ Cardinality(Handles) < MaxDevices
    /\ LET added == add_device(devices, kind, sample_rate)
       IN  /\ devices' = added.map
           /\ handles' = MapInsert(handles, added.key, kind)
    /\ calls' = << >>
    /\ UNCHANGED <<non_engine_vars, catalogue, sample_rate, audio_inputs, audio_buffers, audio_map,
                   midi_inputs, midi_buffers, midi_map, device_order, edited, panic>>

\* AudioEngine::remove_device (reconcile_graph is empty)
RemoveDevice(device_id) ==
    /\ panic = "none"
    /\ devices' = SlotMapRemove(devices, device_id)
    /\ calls' = << >>
    /\ UNCHANGED <<non_engine_vars, catalogue, sample_rate, audio_inputs, audio_buffers, audio_map,
                   midi_inputs, midi_buffers, midi_map, device_order, handles,
                   edited, panic>>

\* AudioEngine::set_audio_input
SetAudioInput(src_device, src_channel, dst_device, dst_channel) ==
    /\ panic = "none"
    /\ ~edited
    /\ LET set == set_audio_input(audio_inputs, src_device, src_channel,
                                  dst_device, dst_channel)
       IN  /\ audio_inputs' = set.audio_inputs
           /\ panic' = set.panic
    /\ edited' = TRUE
    /\ calls' = << >>
    /\ UNCHANGED <<non_engine_vars, catalogue, sample_rate, devices, audio_buffers, audio_map, midi_inputs,
                   midi_buffers, midi_map, device_order, handles>>

\* AudioEngine::remove_audio_input
RemoveAudioInput(dst_device, dst_channel) ==
    /\ panic = "none"
    /\ ~edited
    /\ LET removed == remove_audio_input(audio_inputs, dst_device, dst_channel)
       IN  /\ audio_inputs' = removed.audio_inputs
           /\ panic' = removed.panic
    /\ edited' = TRUE
    /\ calls' = << >>
    /\ UNCHANGED <<non_engine_vars, catalogue, sample_rate, devices, audio_buffers, audio_map, midi_inputs,
                   midi_buffers, midi_map, device_order, handles>>

\* AudioEngine::set_midi_input
SetMidiInput(src_device, dst_device) ==
    /\ panic = "none"
    /\ ~edited
    /\ midi_inputs' = SecondaryInsert(midi_inputs, dst_device, src_device)
    /\ edited' = TRUE
    /\ calls' = << >>
    /\ UNCHANGED <<non_engine_vars, catalogue, sample_rate, devices, audio_inputs, audio_buffers, audio_map,
                   midi_buffers, midi_map, device_order, handles, panic>>

\* AudioEngine::remove_midi_input
RemoveMidiInput(dst_device) ==
    /\ panic = "none"
    /\ ~edited
    /\ midi_inputs' = SecondaryRemove(midi_inputs, dst_device)
    /\ edited' = TRUE
    /\ calls' = << >>
    /\ UNCHANGED <<non_engine_vars, catalogue, sample_rate, devices, audio_inputs, audio_buffers, audio_map,
                   midi_buffers, midi_map, device_order, handles, panic>>

\* AudioEngine::test_connect, called once, on an engine that has no execution
\* order yet; `devices.len() - 1` underflows on an empty list
TestConnect(list) ==
    /\ panic = "none"
    /\ device_order = << >>
    /\ device_order' = list
    /\ IF Len(list) = 0
       THEN /\ audio_map' = EmptyMap
            /\ audio_inputs' = audio_inputs
            /\ panic' = "attempt to subtract with overflow"
       ELSE LET wired == connect_wires(list, 1,
                            [panic |-> "none", audio_inputs |-> audio_inputs])
            IN  /\ audio_map' = connect_slots(list, 1, 0, EmptyMap)
                /\ audio_inputs' = wired.audio_inputs
                /\ panic' = wired.panic
    /\ calls' = << >>
    /\ UNCHANGED <<non_engine_vars, catalogue, sample_rate, devices, audio_buffers, midi_inputs,
                   midi_buffers, midi_map, handles, edited>>

\* AudioEngine::process
Process(len) ==
    /\ panic = "none"
    /\ LET done == process(len)
       IN  /\ audio_buffers' = done.audio_buffers
           /\ midi_buffers' = done.midi_buffers
           /\ calls' = done.calls
           /\ panic' = done.panic
    /\ UNCHANGED <<non_engine_vars, catalogue, sample_rate, devices, audio_inputs, audio_map, midi_inputs,
                   midi_map, device_order, handles, edited>>

\* The lists test_connect is called with: chains of distinct handles, and the
\* empty list
Chains ==
    {list \in SeqsOf(Handles, 0, Cardinality(Handles)) :
        \A i, j \in 1..Len(list) : list[i] = list[j] => i = j}

SetupNext ==
    \/ \E rate \in SampleRates : SetSampleRate(rate)
    \/ \E kind \in catalogue : AddDevice(kind)
    \/ \E list \in Chains : TestConnect(list)
    \/ \E len \in BlockLens : Process(len)

AudioEditNext ==
    \/ \E src \in Handles \cup {NullId}, dst \in Handles,
          src_ch \in Channels, dst_ch \in Channels :
            SetAudioInput(src, src_ch, dst, dst_ch)
    \/ \E dst \in Handles, dst_ch \in Channels : RemoveAudioInput(dst, dst_ch)

MidiEditNext ==
    \/ \E src \in Handles, dst \in Handles : SetMidiInput(src, dst)
    \/ \E dst \in Handles : RemoveMidiInput(dst)

\* A chain of audio processors is built and blocks are processed
InitChain == catalogue = AudioKinds /\ EngineInit /\ BorrowInit /\ ResampleIdle /\ VoiceIdle /\ AdapterIdle /\ ProcessorsIdle /\ RingIdle /\ DelayIdle

NextChain == SetupNext

SpecChain == InitChain /\ [][NextChain]_vars

\* The same, with devices removed at any time
Init == InitChain

Next ==
    \/ SetupNext
    \/ \E id \in Handles : RemoveDevice(id)

Spec == Init /\ [][Next]_vars

\* A chain of audio processors is built, its audio wiring is edited once and
\* blocks are processed
NextWiring ==
    \/ SetupNext
    \/ AudioEditNext

SpecWiring == InitChain /\ [][NextWiring]_vars

\* MIDI sources and audio processors are added, a chain is built, the MIDI
\* wiring is edited once and blocks are processed
InitMidi == catalogue = MidiKinds /\ EngineInit /\ BorrowInit /\ ResampleIdle /\ VoiceIdle /\ AdapterIdle /\ ProcessorsIdle /\ RingIdle /\ DelayIdle

NextMidi ==
    \/ SetupNext
    \/ MidiEditNext

SpecMidi == InitMidi /\ [][NextMidi]_vars

\* borrow_buffers applied to arbitrary arguments
NextBorrow == BorrowCall

SpecBorrow == InitChain /\ [][NextBorrow]_vars

\* borrow_buffers applied to arbitrary arguments, on small master arrays and
\* on master arrays around the width of the mask
NextBorrowWide ==
    \/ BorrowCall
    \/ BorrowWideCall

SpecBorrowWide == InitChain /\ [][NextBorrowWide]_vars

\* A ring buffer of any capacity is written and read
InitRing ==
    catalogue = AudioKinds /\ EngineInit /\ BorrowInit /\ ResampleIdle /\ VoiceIdle /\ AdapterIdle /\ ProcessorsIdle /\ RingInit /\ DelayIdle

NextRing ==
    \/ \E k \in 0..MaxCall : RingWrite(k)
    \/ \E k \in 0..MaxCall : RingRead(k)

SpecRing == InitRing /\ [][NextRing]_vars

\* A ring buffer of any capacity is written, read and sought
NextRingSeek ==
    \/ \E k \in 0..MaxCall : RingWrite(k)
    \/ \E k \in 0..MaxCall : RingRead(k)
    \/ \E delay \in 0..MaxCall : RingSeek(delay)

SpecRingSeek == InitRing /\ [][NextRingSeek]_vars

\* A ring buffer and a delay line are written and sought, side by side
InitSeek ==
    catalogue = AudioKinds /\ EngineInit /\ BorrowInit /\ ResampleIdle /\ VoiceIdle /\ AdapterIdle /\ ProcessorsIdle /\ RingInit /\ DelayInit

NextSeek ==
    \/ \E k \in 0..MaxCall : RingWrite(k)
    \/ \E delay \in 0..MaxCall : RingSeek(delay)
    \/ \E rate \in DelayRates : DlSetSampleRate(rate)
    \/ \E len \in WriteLens : DlWrite(len, 1)
    \/ \E t \in Delays : DlSeek(t)

SpecSeek == InitSeek /\ [][NextSeek]_vars

\* A delay line is configured, written and read
InitDelay ==
    catalogue = AudioKinds /\ EngineInit /\ BorrowInit /\ ResampleIdle /\ VoiceIdle /\ AdapterIdle /\ ProcessorsIdle /\ RingIdle /\ DelayInit

NextDelay ==
    \/ \E rate \in DelayRates : DlSetSampleRate(rate)
    \/ \E t \in Delays : DlSetTargetDelay(t)
    \/ \E t \in Delays : DlSeek(t)
    \/ \E len \in WriteLens : DlWrite(len, 1)
    \/ \E len \in ReadLens : DlRead(len)

SpecDelay == InitDelay /\ [][NextDelay]_vars

\* A delay line is given a sample rate and sought to a delay, its target
\* delay is changed once, and then it is run as Delay::process runs it
\* (processor/delay.rs:67-101): batches are read and written in turn, for
\* ever
InitConverge ==
    /\ catalogue = AudioKinds /\ EngineInit /\ BorrowInit /\ ResampleIdle /\ VoiceIdle /\ AdapterIdle /\ ProcessorsIdle /\ RingIdle
    /\ \E max_delay \in LongDelays : delay_line = DelayLine_new(max_delay)
    /\ delay_panic = "none"
    /\ delay_log = DelayLogInit

NextConverge ==
    \/ delay_log.op = "new" /\ \E rate \in DelayRates : DlSetSampleRate(rate)
    \/ delay_log.op = "set_sample_rate" /\ \E t \in Delays : DlSeek(t)
    \/ delay_log.op = "seek" /\ \E t \in StepTargets : DlSetTargetDelay(t)
    \/ delay_log.op \in {"set_target_delay", "write"} /\ DlRead(OUTPUT_SIZE)
    \/ delay_log.op = "read" /\ DlWrite(OUTPUT_SIZE, 1)

\* The next call of the cycle is a read of a batch
ReadDue == delay_log.op \in {"set_target_delay", "write"}

\* The calls of one Delay::process follow one another, so each call but a
\* read is taken once it is due; the host asks for block after block, so
\* batches are read again and again
SpecConverge ==
    /\ InitConverge
    /\ [][NextConverge]_vars
    /\ WF_vars(~ReadDue /\ NextConverge)
    /\ []<><<ReadDue /\ NextConverge>>_vars

\* Devices that take audio and give none are added and removed, the sample
\* rate is set and taken back to 0, chains are built and blocks are processed
InitRates ==
    /\ catalogue = {"AudioOutput"}
    /\ EngineInit /\ BorrowInit /\ ResampleIdle /\ VoiceIdle /\ AdapterIdle /\ ProcessorsIdle /\ RingIdle /\ DelayIdle

NextRates ==
    \/ \E rate \in {0} \cup SampleRates : SetSampleRate(rate)
    \/ \E kind \in catalogue : AddDevice(kind)
    \/ \E id \in Handles : RemoveDevice(id)
    \/ \E list \in Chains : TestConnect(list)
    \/ \E len \in BlockLens : Process(len)

SpecRates == InitRates /\ [][NextRates]_vars

\* Devices are added and removed and the sample rate is changed, also back
\* to 0
InitRegistry == InitChain

NextRegistry ==
    \/ \E rate \in EngineRates : SetSampleRate(rate)
    \/ \E kind \in catalogue : AddDevice(kind)
    \/ \E id \in Handles : RemoveDevice(id)

SpecRegistry == InitRegistry /\ [][NextRegistry]_vars

\* Devices of one kind are added and removed at any time, a chain of two is
\* built and one audio input is set to channel 1 of a source
InitRewire ==
    /\ catalogue = {"Gain"}
    /\ EngineInit /\ BorrowInit /\ ResampleIdle /\ VoiceIdle /\ AdapterIdle /\ ProcessorsIdle /\ RingIdle /\ DelayIdle

NextRewire ==
    \/ \E kind \in catalogue : AddDevice(kind)
    \/ \E id \in Handles : RemoveDevice(id)
    \/ \E list \in {c \in Chains : Len(c) = 2} : TestConnect(list)
    \/ \E src \in Handles \cup {NullId}, dst \in Handles, dst_ch \in Channels :
            SetAudioInput(src, 1, dst, dst_ch)

SpecRewire == InitRewire /\ [][NextRewire]_vars

\* Blocks of MIDI events are rendered by a voice manager
InitVoice ==
    /\ catalogue = AudioKinds
    /\ EngineInit /\ BorrowInit /\ ResampleIdle /\ VoiceIdle /\ AdapterIdle /\ ProcessorsIdle
    /\ RingIdle /\ DelayIdle

NextVoice ==
    \E len \in 0..MaxBlock : \E midi_in \in MidiBlocks(len) :
        VmProcessMidi(midi_in, len)

SpecVoice == InitVoice /\ [][NextVoice]_vars

\* Notes are triggered and released and blocks are processed, in any order,
\* and any voice may fall silent in a block
InitVoices == InitVoice

TriggerNotes == {60, 62, 64}

NextVoices ==
    \/ \E note \in TriggerNotes : VmTrigger(note)
    \/ \E note \in TriggerNotes : VmRelease(note)
    \/ \E len \in {0, 1}, quiet \in SUBSET (1..NumVoices) : VmProcess(len, quiet)

SpecVoices == InitVoices /\ [][NextVoices]_vars

\* An adapter is filled from again and again
InitAdapter == InitChain

NextAdapter == \E len \in FillLens : AdFill(len)

SpecAdapter == InitAdapter /\ [][NextAdapter]_vars

\* A resampler is created and then reset and called, with an input of
\* exactly the size it asks for
InitResample ==
    /\ catalogue = AudioKinds /\ EngineInit /\ BorrowInit /\ RingIdle
    /\ DelayIdle /\ ResampleInit /\ VoiceIdle /\ AdapterIdle /\ ProcessorsIdle

NextResample ==
    \/ RsReset
    \/ \E len \in OutLens, ratio \in Ratios : RsResample(len, ratio)

SpecResample == InitResample /\ [][NextResample]_vars

\* A delay effect is given delays, in milliseconds, and sample rates
FxDelays == {0, 1, 1000, 2500, 4999, 5000, 9000}

InitDelayFx == InitChain

NextDelayFx ==
    \/ \E delay \in FxDelays : FxSetDelay(delay)
    \/ \E rate \in 0..MaxFxRate : FxSetSampleRate(rate)

SpecDelayFx == InitDelayFx /\ [][NextDelayFx]_vars

\* A chord processor is given chords and blocks of events for its own
\* channel and another one
Chords == {1, 17}

ChordEvents == [channel : {0}, type : {"NoteOn", "NoteOff"}, note : ChordNotes]
                  \cup {[channel |-> 1, type |-> "NoteOn", note |-> 60]}

InitChordFx ==
    /\ catalogue = AudioKinds
    /\ EngineInit /\ BorrowInit /\ ResampleIdle /\ VoiceIdle /\ AdapterIdle
    /\ RingIdle /\ DelayIdle /\ DelayFxIdle /\ ChordInit /\ SamplerIdle /\ OutputIdle

NextChordFx ==
    \/ \E chord \in Chords : ChSetChord(chord)
    \/ \E midi_in \in SeqsOf(ChordEvents, 0, MaxChordEvents) : ChProcess(midi_in)

SpecChordFx == InitChordFx /\ [][NextChordFx]_vars

\* A sampler is given clips and output rates and processes blocks; the clip
\* lengths are per channel and the rates in Hz
ClipLens == {0, 1, 3}
SamplerRates == {0, 1, 2}

InitSampler == InitChain

NextSampler ==
    \/ \E len \in ClipLens, rate \in SamplerRates : SmSetSample(len, rate)
    \/ \E rate \in SamplerRates : SmSetSampleRate(rate)
    \/ \E len \in OutLens : SmProcessBegin(len)
    \/ SmFillStep
    \/ SmProcessEnd

\* The thread that called process keeps running: the loop of fill_buffers
\* takes its next iteration, and process goes on when the loop has ended
SpecSampler ==
    /\ InitSampler /\ [][NextSampler]_vars
    /\ WF_vars(SmFillStep) /\ WF_vars(SmProcessEnd)

\* An output node processes blocks while the device invokes the callback;
\* the blocks fit the ring
OutBlocks == {len \in 0..OutCapacity : len + len <= OutCapacity}

InitOutput == InitChain

CbInvoke == \E data_len \in 1..MaxData : CbPop(data_len)

NextOutput ==
    \/ \E len \in OutBlocks : OutBegin(len)
    \/ OutCheck
    \/ OutRecv
    \/ OutPush
    \/ CbInvoke
    \/ CbTrySend

\* The engine's thread keeps running while it is not blocked, and the device
\* keeps invoking the callback, which runs to its end
SpecOutput ==
    /\ InitOutput /\ [][NextOutput]_vars
    /\ WF_vars(OutCheck) /\ WF_vars(OutRecv) /\ WF_vars(OutPush)
    /\ WF_vars(CbInvoke) /\ WF_vars(CbTrySend)

----------------------------------------------------------------------------
\* Properties of the aliasing guard (checked under SpecBorrow)

HasDuplicate(list) == \E i, j \in 1..Len(list) : i # j /\ list[i] = list[j]

\* An index the guard accepts: idx < min(master.len() / len, 64)
InRange(idx) ==
    bb.len >= 1 /\ idx < Min(bb.master_len \div bb.len, MaskBits)

AllInRange(list) == \A i \in 1..Len(list) : InRange(list[i])

\* The call returned one output view per requested index, each at its slot,
\* and no two of them overlap
DisjointOutputViews ==
    /\ bb.result.panic = "none"
    /\ Len(bb.result.audio_out) = Len(bb.audio_out_indices)
    /\ \A c \in 1..Len(bb.result.audio_out) :
          bb.result.audio_out[c] = View(bb.audio_out_indices[c], bb.len)
    /\ \A c, d \in 1..Len(bb.result.audio_out) :
          c # d => ~Overlap(bb.result.audio_out[c], bb.result.audio_out[d])

\* C1: borrow_buffers never returns two mutable output views onto the same
\* slot: a call whose output index list holds a duplicate panics, and the
\* output views of a call that returns are pairwise disjoint.
C1_DuplicateOutputPanics ==
    bb.called =>
        /\ HasDuplicate(bb.audio_out_indices) => bb.result.panic # "none"
        /\ bb.result.panic = "none" =>
              \A c, d \in 1..Len(bb.result.audio_out) :
                 c # d => ~Overlap(bb.result.audio_out[c], bb.result.audio_out[d])

\* A call with a duplicate output index, every index in range, rejected by the
\* borrow mask
C1_Witness ==
    /\ bb.called
    /\ HasDuplicate(bb.audio_out_indices)
    /\ AllInRange(bb.audio_in_indices) /\ AllInRange(bb.audio_out_indices)
    /\ bb.result.panic = "already borrowed"

\* C2 as claimed: whenever the input indices are in range and the output
\* indices are in range and pairwise distinct (block length at least 1),
\* borrow_buffers returns pairwise disjoint output views, one per index.
C2_Original ==
    (/\ bb.called
     /\ bb.len >= 1
     /\ AllInRange(bb.audio_in_indices)
     /\ AllInRange(bb.audio_out_indices)
     /\ ~HasDuplicate(bb.audio_out_indices))
        => DisjointOutputViews

\* C2 as amended: the output indices must also differ from every input index
\* of the same call; then borrow_buffers returns pairwise disjoint output
\* views, one per index.
C2_DistinctFromInputsSucceeds ==
    (/\ bb.called
     /\ bb.len >= 1
     /\ AllInRange(bb.audio_in_indices)
     /\ AllInRange(bb.audio_out_indices)
     /\ ~HasDuplicate(bb.audio_out_indices)
     /\ Range(bb.audio_out_indices) \cap Range(bb.audio_in_indices) = {})
        => DisjointOutputViews

\* A call with two distinct outputs and an input on another slot, which returns
C2_Witness ==
    /\ bb.called
    /\ bb.len >= 1
    /\ Len(bb.audio_in_indices) >= 1
    /\ Len(bb.audio_out_indices) = 2
    /\ AllInRange(bb.audio_in_indices) /\ AllInRange(bb.audio_out_indices)
    /\ ~HasDuplicate(bb.audio_out_indices)
    /\ Range(bb.audio_out_indices) \cap Range(bb.audio_in_indices) = {}
    /\ DisjointOutputViews

----------------------------------------------------------------------------
\* Properties of the engine.  `calls` holds the node invocations of the process
\* call that has just run; process changes neither the wiring nor the devices,
\* so they are read from the state it ends in.

IsSilent(block) == \A s \in 1..Len(block) : block[s] = 0

\* The wiring entry of input channel c (from 1) of a device; the null source
\* when the table has no such entry
WiredTo(device_id, c) ==
    LET inputs == wired_inputs(device_id)
    IN  IF c <= Len(inputs) THEN inputs[c] ELSE <<NullId, 0>>

\* A device the caller added and has since removed
Removed(device_id) ==
    device_id \in Handles /\ ~SlotMapContains(devices, device_id)

C4_ProcessNeverPanics ==
    panic \notin {"already borrowed", "index out of bounds", "divide by zero"}

\* C5 as claimed: in a process call, an input view of an invoked node whose
\* wiring entry names an output channel of a removed device holds only zeros.
C5_RemovedSourceIsSilent ==
    \A k \in 1..Len(calls) :
        \A c \in 1..Len(calls[k].audio_in) :
            LET source == WiredTo(calls[k].id, c)
            IN  (/\ Removed(source[1])
                 /\ source[2] < description(handles[source[1]]).num_audio_outs)
                    => IsSilent(calls[k].audio_in[c])

\* C6 as claimed: in a process call, an input view of a channel that has no
\* source (no wiring entry, or the null source) holds only zeros.
C6_UnwiredInputIsSilent ==
    \A k \in 1..Len(calls) :
        \A c \in 1..Len(calls[k].audio_in) :
            WiredTo(calls[k].id, c)[1] = NullId
                => IsSilent(calls[k].audio_in[c])

----------------------------------------------------------------------------
\* Properties of the ring buffer (checked under SpecRing)

\* The last call was a read and it returned exactly the oldest unread samples
ReadReturnedWritten ==
    /\ ring_panic = "none"
    /\ ring_log.samples = ring_log.expected

\* C10 as claimed: every read that asks for no more than the samples written
\* and not yet read returns exactly those samples, in the order written.
C10_Original ==
    (ring_log.op = "read" /\ ~ring_log.underrun) => ReadReturnedWritten

\* C10 as amended: provided the number of samples written and not yet read has
\* never exceeded the capacity, every read that asks for no more than the
\* unread samples returns exactly those samples, in the order written, also
\* when the cursors wrap.
C10_RoundTripWithinCapacity ==
    (ring_log.op = "read" /\ ~ring_log.underrun /\ ~ring_log.overrun)
        => ReadReturnedWritten

\* A read of at least two samples that wrapped around the end of the storage
\* and returned what had been written
C10_Witness ==
    /\ ring_log.op = "read"
    /\ ~ring_log.underrun /\ ~ring_log.overrun
    /\ ring_log.wrapped
    /\ Len(ring_log.samples) >= 2
    /\ ReadReturnedWritten

----------------------------------------------------------------------------
\* Properties of the delay line (checked under SpecDelay)

\* C8 as claimed: in every batch of a read in which the resampler needs more
\* input samples than the ring delay, the 32 samples handed to the caller for
\* that batch are all zero and the ring's read cursor is not advanced.
C8_UnderrunBatchIsSilent ==
    \A b \in 1..Len(delay_log.batches) :
        delay_log.batches[b].underrun =>
            /\ IsSilent(delay_log.batches[b].samples)
            /\ delay_log.batches[b].read_after = delay_log.batches[b].read_before

\* C9 as claimed: on a delay line that has never been written, a read of any
\* length returns without panicking and fills the slice with zeros.
C9_ReadBeforeWriteIsSilent ==
    (delay_log.op = "read" /\ ~delay_log.wrote) =>
        /\ delay_panic = "none"
        /\ Len(delay_log.samples) = delay_log.len
        /\ IsSilent(delay_log.samples)

----------------------------------------------------------------------------
\* Properties of the ring buffer's cursors (checked under SpecRingSeek)

\* The delay() of a ring buffer of positive capacity
DelayOf(r) == ring_delay(r).delay

\* The last call was a write of ring_log.len samples to a ring buffer of
\* positive capacity
AfterWrite == ring_log.op = "write" /\ ring_size(ring_log.before) > 0

\* C11 as claimed: on a ring buffer of capacity N > 0 every write completes,
\* advances the write cursor by the length modulo N and leaves the most
\* recently written samples in the buffer, behind the write cursor.
C11_WriteNeverPanics ==
    AfterWrite =>
        LET N == ring_size(ring)
            k == ring_log.len
        IN  /\ ring_panic = "none"
            /\ ring.write_idx % N = (ring_log.before.write_idx + k) % N
            /\ \A x \in 1..Min(k, N) :
                  ring.buffer[((ring.write_idx - x) % N) + 1]
                      = ring_log.written - x + 1

\* C12: on a ring buffer of capacity N > 0, after every write, read and seek
\* that returns, delay() lies in [0, N) and equals (write cursor - read
\* cursor) mod N; a write of k samples raises it by k modulo N and a read of k
\* samples lowers it by k modulo N.
C12_DelayIsCursorDistance ==
    (ring_panic = "none" /\ ring_size(ring) > 0) =>
        LET N == ring_size(ring)
            k == ring_log.len
        IN  /\ DelayOf(ring) \in 0..(N - 1)
            /\ (DelayOf(ring) - (ring.write_idx - ring.read_idx)) % N = 0
            /\ ring_log.op = "write" =>
                  DelayOf(ring) = (DelayOf(ring_log.before) + k) % N
            /\ ring_log.op = "read" =>
                  DelayOf(ring) = (DelayOf(ring_log.before) - k) % N

\* A write of at least two samples that wrapped around the end of a ring
\* buffer whose read cursor was not at the start, and returned
C12_Witness ==
    /\ ring_panic = "none"
    /\ ring_size(ring) >= 2
    /\ ring_log.op = "write"
    /\ ring_log.wrapped
    /\ ring_log.len >= 2
    /\ ring_log.before.read_idx > 0
    /\ DelayOf(ring) = (DelayOf(ring_log.before) + ring_log.len) % ring_size(ring)

----------------------------------------------------------------------------
\* Properties of seek (checked under SpecSeek)

\* The last call on the ring buffer was seek(d) with 0 <= d < N
AfterRingSeek ==
    ring_log.op = "seek" /\ ring_log.len < ring_size(ring_log.before)

\* The last call on the delay line was a seek to a target delay below the
\* capacity of its ring
AfterDelaySeek ==
    /\ delay_log.op = "seek"
    /\ delay_line.target_delay < ring_size(delay_line.ring)

\* C13: RingBuffer::seek(d) with 0 <= d < N returns with delay() == d and
\* leaves the write cursor and the stored samples as they were;
\* DelayLine::seek to a target below the ring capacity returns with the ring
\* delay equal to the new target delay.
C13_SeekSetsDelay ==
    /\ AfterRingSeek =>
          /\ ring_panic = "none"
          /\ DelayOf(ring) = ring_log.len
          /\ ring.write_idx = ring_log.before.write_idx
          /\ ring.buffer = ring_log.before.buffer
    /\ AfterDelaySeek =>
          /\ delay_panic = "none"
          /\ DelayOf(delay_line.ring) = delay_line.target_delay

\* A ring buffer sought to a positive delay after a write, and a delay line
\* sought to a positive target delay after a write
C13_Witness ==
    /\ AfterRingSeek
    /\ ring_log.len >= 1
    /\ ring_log.before.write_idx >= 1
    /\ DelayOf(ring) = ring_log.len
    /\ AfterDelaySeek
    /\ delay_log.wrote
    /\ delay_line.target_delay >= 1
    /\ DelayOf(delay_line.ring) = delay_line.target_delay

----------------------------------------------------------------------------
\* Properties of the delay line's configuration (checked under SpecDelay)

\* C14 as claimed: after set_sample_rate(rate) the ring buffer has capacity
\* floor(max_delay * rate) and, when that is positive, the ring delay equals
\* the current target delay, whatever target was set before the call.
C14_SampleRateSeeksToTarget ==
    delay_log.op = "set_sample_rate" =>
        /\ ring_size(delay_line.ring)
              = SamplesIn(delay_line.max_delay, delay_line.sample_rate)
        /\ ring_size(delay_line.ring) > 0 =>
              DelayOf(delay_line.ring) = delay_line.target_delay

\* C15: set_target_delay changes only the stored target delay: the ring's
\* cursors and samples, the warp and every other field of the delay line are
\* as before the call.
C15_SetTargetChangesOnlyTarget ==
    [][delay_log'.op = "set_target_delay" =>
          delay_line' = [delay_line EXCEPT
                            !.target_delay = delay_line'.target_delay]]_vars

\* set_target_delay has just been called on a delay line that has been
\* written, whose warp is not 0 and whose ring delay is not at the new target
C15_Witness ==
    /\ delay_log.op = "set_target_delay"
    /\ delay_log.wrote
    /\ delay_line.warp # 0
    /\ ring_size(delay_line.ring) > 0
    /\ DelayOf(delay_line.ring) # delay_line.target_delay
    /\ delay_line.ring.read_idx > 0

----------------------------------------------------------------------------
\* Properties of the delay line's control loop (checked under SpecConverge)

\* The ring delay is within one sample of the target delay
NearTarget ==
    /\ delay_panic = "none"
    /\ DelayOf(delay_line.ring) - delay_line.target_delay \in {-1, 0, 1}

\* C16 as claimed: after one step change of the target delay, cycles of
\* read(n) followed by write(n) eventually bring the delay, as it is at the
\* end of each cycle, to within one sample of the target and keep it there.
C16_DelayConverges ==
    <>[](delay_log.op = "write" => NearTarget)

----------------------------------------------------------------------------
\* Properties of one batch of DelayLine::read (checked under SpecDelay and
\* SpecConverge)

\* read has just returned without a panic, having asked read_inner for a
\* batch; the delay line's warp and ratio are those of its last batch
AfterBatch ==
    /\ delay_panic = "none"
    /\ delay_log.op = "read"
    /\ Len(delay_log.batches) > 0

\* The last batch read_inner was asked for
LastBatch == delay_log.batches[Len(delay_log.batches)]

\* C17 as claimed: a batch that starts with the ring delay at the target
\* delay (a delay error of exactly 0) ends with a warp of 0 and with the ring
\* delay at the target delay.
C17_ZeroErrorSnaps ==
    (AfterBatch /\ LastBatch.delay = delay_line.target_delay)
        => /\ delay_line.warp = 0
           /\ DelayOf(delay_line.ring) = delay_line.target_delay

\* The ratio a batch hands to the resampler is warp / sample_rate + 1 of the
\* warp of that batch, kept between 1/10 and 10
RatioIsClamped ==
    LET ratio == delay_line.sampler.ratio
        warp == delay_line.warp
        rate == delay_line.sample_rate
    IN  /\ ratio.num > 0 /\ ratio.den > 0
        /\ 10 * ratio.num >= ratio.den
        /\ ratio.num <= 10 * ratio.den
        /\ 10 * (warp + rate) < rate => 10 * ratio.num = ratio.den
        /\ 10 * (warp + rate) > 100 * rate => ratio.num = 10 * ratio.den
        /\ (rate <= 10 * (warp + rate) /\ 10 * (warp + rate) <= 100 * rate)
              => ratio.num * rate = (warp + rate) * ratio.den

----------------------------------------------------------------------------
\* Properties of the resampler (checked under SpecResample)

\* resample has just been called
AfterResample == resample_log.op = "resample"

\* C19: from every state reached by new, reset and resample, a call of
\* resample with an input of exactly next_input_size(n, ratio) samples, for
\* any output length n and ratio >= 0, passes the three assertions of resample
\* and does not index outside the input: the call does not panic, and each of
\* its interpolations reads 4 samples that lie inside the input.
C19_SizingIsExact ==
    /\ resample_panic = "none"
    /\ AfterResample =>
          \A i \in 0..(resample_log.len - 1) :
              LET idx == Floor(resample_log.x1 + resample_log.ratio * i) - window
              IN  idx >= 0 /\ idx + 4 <= resample_log.input_size

\* resample has returned from a call that started at a fractional position,
\* with a ratio that is neither 0 nor 1.0, and that interpolated its last
\* sample from the last 4 samples of the input
C19_Witness ==
    /\ AfterResample
    /\ resample_panic = "none"
    /\ Fract(resample_log.x1) # 0
    /\ resample_log.ratio \notin {0, One}
    /\ resample_log.len > 1
    /\ Floor(resample_log.x1 + resample_log.ratio * (resample_log.len - 1))
          - window + 4 = resample_log.input_size

\* From the resampler's present state, resampling n1 + n2 samples in one call
\* and in two calls (with the source advanced by the offset the first call
\* returns) gives the same output and leaves the same position; the second
\* call starts at the source position the single call takes sample n1 from
SplitEqualsWhole(ratio, n1, n2) ==
    LET whole == sampler_process(resampler, stream_pos, n1 + n2, ratio)
        first == sampler_process(resampler, stream_pos, n1, ratio)
        second == sampler_process(first.rs, first.pos, n2, ratio)
    IN  /\ whole.panic = "none" /\ first.panic = "none"
        /\ second.panic = "none"
        /\ first.pos * FracDen + first.rs.x1
              = stream_pos * FracDen + resampler.x1 + ratio * n1
        /\ whole.out = first.out \o second.out
        /\ whole.rs = second.rs
        /\ whole.pos = second.pos

\* C20: resampling a stream in two consecutive calls, the source advanced by
\* the offset the first returns and the position carried over, gives the same
\* output samples, taken at the same source positions, as one call with the
\* same ratio other than 1.0; and after every call the returned offset plus
\* the new position is the old position plus ratio times the output length.
C20_ResampleIsContinuous ==
    resample_panic = "none" =>
        /\ AfterResample =>
              resample_log.offset * FracDen + resampler.x1
                = resample_log.x1 + resample_log.ratio * resample_log.len
        /\ \A ratio \in Ratios \ {One}, n1 \in OutLens, n2 \in OutLens :
              SplitEqualsWhole(ratio, n1, n2)

\* resample has returned from a call with a ratio other than 1.0 that moved
\* the source on and left a fractional position to carry over
C20_Witness ==
    /\ AfterResample
    /\ resample_panic = "none"
    /\ resample_log.ratio # One
    /\ resample_log.len > 0
    /\ resample_log.offset > 0
    /\ Fract(resampler.x1) # 0

\* C21: a call of resample with ratio 1.0 that starts at an integral position
\* copies the input unchanged, output[i] = input[position + i], returns the
\* offset output length + position - window, and leaves the position at the
\* window constant.
C21_UnitRatioCopies ==
    (/\ AfterResample /\ resample_panic = "none"
     /\ resample_log.ratio = One /\ Fract(resample_log.x1) = 0)
        => /\ Len(resample_log.out) = resample_log.len
           /\ \A i \in 0..(resample_log.len - 1) :
                 resample_log.out[i + 1] =
                   OutScale * SourceAt(resample_log.pos
                                         + Floor(resample_log.x1) + i)
           /\ resample_log.offset =
                 resample_log.len + Floor(resample_log.x1) - window
           /\ resampler.x1 = window * FracDen

\* resample has copied two or more samples that are not all alike, from an
\* integral position, at ratio 1.0
C21_Witness ==
    /\ AfterResample /\ resample_panic = "none"
    /\ resample_log.ratio = One /\ Fract(resample_log.x1) = 0
    /\ resample_log.len > 1
    /\ resample_log.pos > 0
    /\ resample_log.out[1] # resample_log.out[2]

----------------------------------------------------------------------------
\* Properties of the engine's sample rate (checked under SpecRates)

\* The device behind a handle is registered
Registered(id) == SlotMapContains(devices, id)

\* C22: a call of process while the sample rate is 0 panics, with no node
\* invoked and no audio or MIDI buffer changed.
C22_UnconfiguredProcessPanics ==
    [][(sample_rate = 0 /\ \E len \in BlockLens : Process(len))
          => /\ panic' = "Sample rate has not been set."
             /\ calls' = << >>
             /\ audio_buffers' = audio_buffers
             /\ midi_buffers' = midi_buffers]_vars

\* process has panicked on a sample rate of 0, in an engine that has processed
\* blocks before and whose execution order names a registered device
C22_Witness ==
    /\ panic = "Sample rate has not been set."
    /\ sample_rate = 0
    /\ Len(audio_buffers) > 0
    /\ \E k \in 1..Len(device_order) : Registered(device_order[k])

\* C23: whenever the engine's sample rate is not 0, the last set_sample_rate
\* call of every registered device carried the engine's rate.
C23_DevicesCarryEngineRate ==
    sample_rate # 0 =>
        \A id \in Handles :
            Registered(id) => SlotMapGet(devices, id).rate = sample_rate

\* The engine runs at the second rate, with two registered devices and one
\* removed
C23_Witness ==
    /\ sample_rate = 48000
    /\ Cardinality({id \in Handles : Registered(id)}) = 2
    /\ \E id \in Handles : ~Registered(id)

----------------------------------------------------------------------------
\* Properties of the views process hands to a node (checked under SpecChain)

\* C24: in every process call, a node is handed as many input views as it has
\* wired input channels, clamped to the range from min_audio_ins to
\* max_audio_ins of its description, and num_audio_outs output views.
C24_ViewCountsFollowDescription ==
    \A k \in 1..Len(calls) :
        LET descr == description(calls[k].kind)
            wired == Len(wired_inputs(calls[k].id))
        IN  /\ Len(calls[k].audio_in) =
                  IF wired < descr.min_audio_ins THEN descr.min_audio_ins
                  ELSE IF wired > descr.max_audio_ins THEN descr.max_audio_ins
                  ELSE wired
            /\ Len(calls[k].audio_out) = descr.num_audio_outs

\* process has invoked a node with fewer wired inputs than its minimum and a
\* node with more wired inputs than its maximum
C24_Witness ==
    /\ \E k \in 1..Len(calls) :
          Len(wired_inputs(calls[k].id))
            < description(calls[k].kind).min_audio_ins
    /\ \E k \in 1..Len(calls) :
          Len(wired_inputs(calls[k].id))
            > description(calls[k].kind).max_audio_ins

----------------------------------------------------------------------------
\* Properties of the wiring edits (checked under SpecRewire)

\* The wiring tables after a set_audio_input call that returned: the entry is
\* set, the entries the table grew by are null, the rest are as before
SetAudioInputEffect(src, src_ch, dst, dst_ch) ==
    LET old == wired_inputs(dst)
        new == wired_inputs(dst)'
    IN  /\ Len(new) = IF dst_ch >= Len(old) THEN dst_ch + 1 ELSE Len(old)
        /\ new[dst_ch + 1] = <<src, src_ch>>
        /\ \A i \in 1..Len(new) :
              i # dst_ch + 1 =>
                new[i] = IF i <= Len(old) THEN old[i] ELSE <<NullId, 0>>
        /\ \A h \in Handles :
              (h # dst /\ (Registered(h) \/ h.idx # dst.idx)) =>
                wired_inputs(h)' = wired_inputs(h)

\* C25: set_audio_input(src, src_ch, dst, dst_ch) sets entry dst_ch of dst's
\* wiring table to (src, src_ch) whatever it held before, creates the entries
\* between the old length and dst_ch with the null source, and leaves every
\* other entry of dst and the table of every other node as it was.  The call
\* returns whenever dst is a registered device.
C25_SetAudioInputSetsOneEntry ==
    [][\A src \in Handles \cup {NullId}, dst \in Handles,
         src_ch \in Channels, dst_ch \in Channels :
            SetAudioInput(src, src_ch, dst, dst_ch) =>
                /\ Registered(dst) => panic' = "none"
                /\ panic' = "none" => SetAudioInputEffect(src, src_ch, dst, dst_ch)]_vars

\* set_audio_input has grown a table past its old length on a node that took
\* the storage slot of a removed one, and another node keeps a wired table
C25_Witness ==
    /\ edited
    /\ panic = "none"
    /\ \E h \in Handles :
          /\ Registered(h)
          /\ h.version > 1
          /\ Len(wired_inputs(h)) = 2
          /\ wired_inputs(h)[1] = <<NullId, 0>>
          /\ wired_inputs(h)[2][1] # NullId
    /\ \E g \in Handles : Registered(g) /\ Len(wired_inputs(g)) = 2
                            /\ wired_inputs(g)[1][1] # NullId

----------------------------------------------------------------------------
\* Properties of removed handles (checked under SpecRates)

\* The storage slot of a removed handle holds a later device
SlotReused(h) ==
    /\ ~Registered(h)
    /\ \E g \in Handles : Registered(g) /\ g.idx = h.idx /\ g.version > h.version

\* The last process call invoked only registered devices, each at its own
\* place in the execution order
InvokedAreRegistered ==
    \A k \in 1..Len(calls) :
        /\ calls[k].pos \in 1..Len(device_order)
        /\ device_order[calls[k].pos] = calls[k].id
        /\ Registered(calls[k].id)
        /\ calls[k].kind = handles[calls[k].id]

\* C26: a removed handle never resolves to a node again: add_device returns a
\* handle no caller holds, also when it reuses a storage slot, and process
\* invokes no node for a removed handle's place in the execution order.
C26_RemovedHandleStaysDead ==
    /\ []InvokedAreRegistered
    /\ [][/\ \A h \in Handles : ~Registered(h) => ~Registered(h)'
          /\ \A kind \in Kinds :
                AddDevice(kind) => \E g \in DOMAIN handles' :
                                      g \notin Handles /\ Registered(g)']_vars

\* process has skipped a removed handle whose slot a later device took, and
\* invoked the node that follows it in the execution order
C26_Witness ==
    \E p \in 1..Len(device_order) :
        /\ SlotReused(device_order[p])
        /\ \A k \in 1..Len(calls) : calls[k].pos # p
        /\ \E k \in 1..Len(calls) : calls[k].pos > p

----------------------------------------------------------------------------
\* Properties of the index check (checked under SpecBorrowWide)

\* A view that ends within the master array
WithinMaster(v) == v.start >= 0 /\ v.start + v.len <= bb.master_len

\* C27: borrow_buffers panics whenever an input or output index is at or above
\* min(master.len() / len, 64), and every view it hands out ends within the
\* master array.
C27_OutOfRangeIndexPanics ==
    bb.called =>
        /\ (\E i \in 1..Len(bb.audio_in_indices) : ~InRange(bb.audio_in_indices[i]))
              => bb.result.panic # "none"
        /\ (\E i \in 1..Len(bb.audio_out_indices) : ~InRange(bb.audio_out_indices[i]))
              => bb.result.panic # "none"
        /\ \A c \in 1..Len(bb.result.audio_in) : WithinMaster(bb.result.audio_in[c])
        /\ \A c \in 1..Len(bb.result.audio_out) : WithinMaster(bb.result.audio_out[c])

\* A call on a master array of more than 64 slots that asked for slot 64,
\* which lies within the array, and was rejected
C27_Witness ==
    /\ bb.called
    /\ bb.len >= 1
    /\ bb.master_len \div bb.len > MaskBits
    /\ bb.audio_in_indices = << >>
    /\ bb.audio_out_indices = <<MaskBits>>
    /\ bb.result.panic = "index out of bounds"

----------------------------------------------------------------------------
\* Properties of the voice manager (checked under SpecVoice)

\* The block offset of event k of the last call; 0 before the first event and
\* the block length after the last
EventOffset(k) ==
    IF k = 0 THEN 0
    ELSE IF k > Len(voice_log.midi_in) THEN voice_log.len
    ELSE voice_log.midi_in[k].time

\* C28: process_midi is sample-accurate: with the events of a block sorted by
\* ascending offset and none beyond the block, it returns, it renders the
\* samples between consecutive events, it applies each event at its own
\* offset, and it renders every sample of the block.
C28_ProcessMidiIsSampleAccurate ==
    voice_log.op = "process_midi" =>
        /\ voice_panic = "none"
        /\ Len(voice_log.rendered) = Len(voice_log.midi_in) + 1
        /\ \A k \in 1..Len(voice_log.rendered) :
              voice_log.rendered[k] =
                  [from |-> EventOffset(k - 1), to |-> EventOffset(k)]
        /\ Len(voice_log.applied) = Len(voice_log.midi_in)
        /\ \A k \in 1..Len(voice_log.applied) :
              voice_log.applied[k] = voice_log.midi_in[k].time
        /\ \A s \in 1..voice_log.len : voice_log.out[s] # Stale

----------------------------------------------------------------------------
\* Properties of the storage process uses (checked under SpecChain)

\* C29: process allocates nothing: it creates and grows no vector, so the
\* master array and the list of MIDI buffers, which are empty and own no
\* storage on a new engine, are still empty after a process call on it.
C29_ProcessGrowsNoVector ==
    [][(\E len \in BlockLens : Process(len)) =>
          /\ audio_buffers = << >> => audio_buffers' = << >>
          /\ midi_buffers = << >> => midi_buffers' = << >>]_vars

----------------------------------------------------------------------------
\* Properties of the adapter (checked under SpecAdapter)

\* C30: the adapter preserves the sample stream: every fill delivers the
\* samples that follow those delivered before, in the order the factory
\* produced them, as many as were asked for; nothing produced is skipped; the
\* factory is called only when no unread sample is buffered; and idx stays
\* between 0 and N.
C30_AdapterPreservesStream ==
    /\ Len(adapter_log.out) = adapter_log.len
    /\ \A i \in 1..Len(adapter_log.out) :
          adapter_log.out[i] = adapter_log.taken - Len(adapter_log.out) + i
    /\ adapter_log.taken =
          adapter_log.made * OUTPUT_SIZE - (OUTPUT_SIZE - fixed_adapter.idx)
    /\ ~adapter_log.early
    /\ fixed_adapter.idx \in 0..OUTPUT_SIZE

\* A fill of more than two blocks that began and ended within a block
C30_Witness ==
    /\ adapter_log.op = "fill"
    /\ adapter_log.len > 2 * OUTPUT_SIZE
    /\ (adapter_log.taken - adapter_log.len) % OUTPUT_SIZE # 0
    /\ fixed_adapter.idx \notin {0, OUTPUT_SIZE}
    /\ adapter_log.made >= 4

----------------------------------------------------------------------------
\* Properties of the order of invocation (checked under SpecRates)

\* The entries of the execution order that resolve to a device, in order
RECURSIVE RegisteredEntries(_)
RegisteredEntries(k) ==
    IF k > Len(device_order) THEN << >>
    ELSE (IF Registered(device_order[k]) THEN <<k>> ELSE << >>)
            \o RegisteredEntries(k + 1)

\* C31: a process call that returns has invoked the nodes in the order of
\* the execution list, once for every entry whose handle is registered and
\* for no other entry, and each time the node that the entry names.
C31_InvokedInListOrder ==
    [][(\E len \in BlockLens : Process(len)) /\ panic' = "none" =>
          /\ [k \in 1..Len(calls') |-> calls'[k].pos] = RegisteredEntries(1)
          /\ \A k \in 1..Len(calls') :
                calls'[k].id = device_order[calls'[k].pos]]_vars

\* process has invoked the first and the last node of a list of three and
\* skipped the removed one between them
C31_Witness ==
    /\ Len(device_order) = 3
    /\ ~Registered(device_order[2])
    /\ Len(calls) = 2
    /\ calls[1].pos = 1
    /\ calls[2].pos = 3

----------------------------------------------------------------------------
\* Properties of inputs against outputs (checked under SpecBorrowWide)

\* C32: a call of borrow_buffers whose output index list holds an index of
\* its input index list panics, and no output view of a call that returns
\* overlaps an input view of that call.
C32_OutputSharedWithInputPanics ==
    bb.called =>
        /\ Range(bb.audio_out_indices) \cap Range(bb.audio_in_indices) # {}
              => bb.result.panic # "none"
        /\ bb.result.panic = "none" =>
              \A c \in 1..Len(bb.result.audio_out), d \in 1..Len(bb.result.audio_in) :
                 ~Overlap(bb.result.audio_out[c], bb.result.audio_in[d])

\* A call with two distinct outputs in range, one of them also an input,
\* rejected by the borrow mask
C32_Witness ==
    /\ bb.called
    /\ Len(bb.audio_out_indices) = 2
    /\ ~HasDuplicate(bb.audio_out_indices)
    /\ AllInRange(bb.audio_in_indices) /\ AllInRange(bb.audio_out_indices)
    /\ bb.audio_out_indices[2] \in Range(bb.audio_in_indices)
    /\ bb.audio_out_indices[1] \notin Range(bb.audio_in_indices)
    /\ bb.result.panic = "already borrowed"

----------------------------------------------------------------------------
\* Properties of the ring's cursors (checked under SpecRingSeek)

\* C33 as claimed: on a ring of capacity N > 0, after every write, read and
\* seek that returns, the read cursor and the write cursor are both in 0..N-1.
C33_Original ==
    (ring_size(ring) > 0 /\ ring_panic = "none"
        /\ ring_log.op \in {"write", "read", "seek"}) =>
        /\ ring.read_idx \in 0..(ring_size(ring) - 1)
        /\ ring.write_idx \in 0..(ring_size(ring) - 1)

\* C33 as amended: on a ring of capacity N > 0, after every write, read and
\* seek that returns, both cursors are in 0..N, and the read cursor is below N
\* after a seek.
C33_CursorsWithinCapacity ==
    (ring_size(ring) > 0 /\ ring_panic = "none"
        /\ ring_log.op \in {"write", "read", "seek"}) =>
        /\ ring.read_idx \in 0..ring_size(ring)
        /\ ring.write_idx \in 0..ring_size(ring)
        /\ ring_log.op = "seek" => ring.read_idx < ring_size(ring)

\* A write that ended exactly at the end of a buffer of several samples and
\* left the write cursor there
C33_Witness ==
    /\ ring_size(ring) >= 2
    /\ ring_panic = "none"
    /\ ring_log.op = "write"
    /\ ring_log.len >= 1
    /\ ring.write_idx = ring_size(ring)

----------------------------------------------------------------------------
\* Properties of the delay effect (checked under SpecDelayFx)

\* C34: after Delay::set_sample_rate has returned, for every delay set_delay
\* accepts and every sample rate, the target delay of each line is strictly
\* below the capacity of its ring, and the ring's delay equals the target.
C34_TargetBelowCapacity ==
    (delay_fx_log.op = "set_sample_rate" /\ delay_fx_panic = "none") =>
        \A k \in 1..Len(delay_fx.delay_lines) :
            LET line == delay_fx.delay_lines[k]
            IN  /\ line.target_delay < ring_size(line.ring)
                /\ DelayOf(line.ring) = line.target_delay

----------------------------------------------------------------------------
\* Properties of the resampler's position (checked under SpecResample)

\* C35: after new, after reset and after every resample call that returns,
\* made with a ratio >= 0 and an input of the size next_input_size asks for,
\* the position x1 satisfies window <= x1 < window + 1.
C35_PositionInFirstInterval ==
    resample_panic = "none" =>
        /\ window * FracDen <= resampler.x1
        /\ resampler.x1 < (window + 1) * FracDen

\* A resample call at a ratio other than 1.0 that advanced the source and
\* left a fractional position
C35_Witness ==
    /\ resample_panic = "none"
    /\ resample_log.op = "resample"
    /\ resample_log.ratio # One
    /\ resample_log.offset >= 1
    /\ Fract(resampler.x1) # 0

----------------------------------------------------------------------------
\* Properties of voice allocation (checked under SpecVoices)

\* The order of preference of a voice for a note: On for the note, Off,
\* Released for the note, Released for another note, On for another note
PreferenceClass(v, note) ==
    CASE v.phase = "On" /\ v.note = note       -> 0
      [] v.phase = "Off"                        -> 1
      [] v.phase = "Released" /\ v.note = note -> 2
      [] v.phase = "Released" /\ v.note # note -> 3
      [] v.phase = "On" /\ v.note # note       -> 4

\* Voice i is one the order of preference allows trigger(note) to take: no
\* voice is in a better class, and among the voices of another note none of
\* its class was released (triggered) earlier
Preferred(voices, note, i) ==
    /\ \A j \in 1..Len(voices) :
          PreferenceClass(voices[i], note) <= PreferenceClass(voices[j], note)
    /\ PreferenceClass(voices[i], note) \in {3, 4} =>
          \A j \in 1..Len(voices) :
             PreferenceClass(voices[j], note) = PreferenceClass(voices[i], note)
                => voices[i].counter <= voices[j].counter

\* The voices trigger(note) has taken: switched On for the note with the
\* counter of the call, all others as they were
Taken(vm, note) ==
    {i \in 1..Len(vm.voices) :
        voice_manager.voices =
            [vm.voices EXCEPT ![i] = [phase |-> "On", note |-> note,
                                      counter |-> vm.counter]]}

\* C36: trigger(note) takes one voice, chosen in this order of preference: a
\* voice On for the note, else an Off voice, else a voice Released for the
\* note, else the Released voice of the oldest release, else the On voice of
\* the oldest trigger; an On voice of another note is not taken while any
\* voice is Off or Released.
C36_TriggerFollowsPreference ==
    voice_log.op = "trigger" =>
        LET vm == voice_log.before
            note == voice_log.note
        IN  /\ voice_manager.counter = vm.counter + 1
            /\ Taken(vm, note) # {}
            /\ \A i \in Taken(vm, note) :
                  /\ Preferred(vm.voices, note, i)
                  /\ (vm.voices[i].phase = "On" /\ vm.voices[i].note # note) =>
                        \A j \in 1..Len(vm.voices) : vm.voices[j].phase = "On"

\* A trigger that found every voice On for another note and took the one
\* triggered first, which is not the first voice
C36_Witness ==
    /\ voice_log.op = "trigger"
    /\ \A j \in 1..Len(voice_log.before.voices) :
          /\ voice_log.before.voices[j].phase = "On"
          /\ voice_log.before.voices[j].note # voice_log.note
    /\ \E i \in Taken(voice_log.before, voice_log.note) :
          /\ i > 1
          /\ voice_log.before.voices[i].counter
                < voice_log.before.voices[1].counter

\* The voices that are On for a note
OnFor(voices, note) ==
    {i \in 1..Len(voices) : voices[i].phase = "On" /\ voices[i].note = note}

\* C37: after any sequence of trigger, release and process calls at most one
\* voice is On for any note; release(note) moves only a voice that is On for
\* the note to Released, and changes nothing, the counter included, when no
\* voice is On for it.
C37_OneVoicePerNote ==
    /\ \A note \in TriggerNotes :
          Cardinality(OnFor(voice_manager.voices, note)) <= 1
    /\ voice_log.op = "release" =>
          LET vm == voice_log.before
              note == voice_log.note
          IN  IF OnFor(vm.voices, note) = {}
              THEN voice_manager = vm
              ELSE /\ voice_manager.counter = vm.counter + 1
                   /\ \E i \in OnFor(vm.voices, note) :
                         voice_manager.voices =
                            [vm.voices EXCEPT ![i] =
                                [phase |-> "Released", note |-> note,
                                 counter |-> vm.counter]]

\* A note was triggered while a voice was On for it and another was Off, and
\* only the one voice is On for it
C37_Witness ==
    /\ voice_log.op = "trigger"
    /\ OnFor(voice_log.before.voices, voice_log.note) # {}
    /\ \E j \in 1..Len(voice_log.before.voices) :
          voice_log.before.voices[j].phase = "Off"
    /\ Cardinality(OnFor(voice_manager.voices, voice_log.note)) = 1

----------------------------------------------------------------------------
\* Properties of the chord processor (checked under SpecChordFx)

\* The union of the chord tones of the input notes that are held
HeldTones == UNION {chord_log.held[n] : n \in ChordNotes}

\* C38: after any sequence of NoteOn and NoteOff events on the processor's
\* channel, the notes it has switched on and not off again are the chord
\* tones of the input notes that are held, and process does not panic: the
\* unreachable!() of the NoteOff branch is not reached.
C38_OutputFollowsHeldNotes ==
    /\ chord_panic = "none"
    /\ chord_log.sounding = HeldTones

----------------------------------------------------------------------------
\* Properties of the sampler (checked under SpecSampler)

\* C39: Sampler::fill_buffers, and with it Sampler::process, terminates for
\* every clip that was loaded and every block length: a call that has entered
\* the loop of fill_buffers leaves it.
C39_FillTerminates ==
    (sampler_call.pc = "fill") ~> (sampler_call.pc # "fill" \/ sampler_panic # "none")

----------------------------------------------------------------------------
\* Properties of the output node (checked under SpecOutput)

\* C40: a call of AudioOutput::process with a block that fits the ring
\* returns, as long as the device keeps invoking the callback: a notification
\* dropped because process was not yet receiving does not block it forever.
C40_ProcessReturns ==
    (output_st.pc # "idle") ~> (output_st.pc = "idle")

\* A call of process has returned after a notification was dropped while it
\* was about to receive and a later one woke it
C40_Witness ==
    /\ output_st.pc = "idle"
    /\ output_log.dropped
    /\ output_log.woken

====
